---- MODULE Spec2Model ----
(***************************************************************************)
(* Model of the news-ai-aggregator ingestion pipeline.                     *)
(*                                                                         *)
(* The specifications share one set of variables:                          *)
(*   SpecJobs      - the REST job runner of src/api/api.py;                *)
(*   Spec          - the per-item pipeline: parse_article,                 *)
(*                   save_habr_article, save_reddit_post, the record store *)
(*                   and the vector index;                                 *)
(*   SpecEditorial - one call of EditorialService.process_post;            *)
(*   SpecDedup     - the deduplication service called directly;            *)
(*   SpecTau       - one feed deduplicated at two thresholds;              *)
(*   SpecTelegram  - format_for_telegram and the post made of it;          *)
(*   SpecPublish   - TelegramPost rows and mark_as_published;              *)
(*   SpecLinkage   - raw, processed and short-form rows and their keys;    *)
(*   SpecScrape    - one call of scrape_subreddit with its retries;        *)
(*   SpecCounters  - the counters of a Habr crawl and of scrape_subreddit; *)
(*   SpecLogs      - the two log backends given the same calls;            *)
(*   SpecRun       - runs started from the interface and their sessions;   *)
(*   SpecGenerate  - one call of OllamaService.generate.                   *)
(***************************************************************************)
EXTENDS Integers, Sequences, FiniteSets, TLC

\* ------------------------------------------------------------------------
\* Bounds
\* ------------------------------------------------------------------------
MaxJobs == 2        \* background jobs ever submitted
MaxWorkers == 2     \* scraper runs working at the same time
MaxItems == 2       \* items the scraper runs take up, all together
MaxArticles == 2    \* distinct source ids (Habr article ids, Reddit post ids)

JobIds == 1..MaxJobs
Workers == 1..MaxWorkers
Articles == 1..MaxArticles

VARIABLES
    worker,             \* per scraper run: toggles, position, locals, stats
    habr_articles,      \* table habr_articles, a sequence of rows
    telegram_posts,     \* table telegram_posts
    reddit_posts,       \* table reddit_posts
    qdrant,             \* the habr_articles collection of the vector index
    similarity          \* cosine similarity (percent) of two different texts

PipeVars == <<worker, habr_articles, telegram_posts, reddit_posts, qdrant, similarity>>

\* ========================================================================
\* JOB RUNNER (src/api/api.py)
\* ========================================================================
VARIABLES
    scraper_jobs,       \* dict job_id -> job record (api.py:975)
    task_pc,            \* position of each background task function
    task_result,        \* local variable `result` of the background task
    clear_pc,           \* position of clear_scrape_jobs
    job_ids_to_remove   \* local list of clear_scrape_jobs

JobVars == <<scraper_jobs, task_pc, task_result, clear_pc, job_ids_to_remove>>

\* the services called on their own: one process_post call, the calls of
\* the deduplication service, and one feed run at two thresholds
VARIABLES
    editorial,          \* one call of EditorialService.process_post
    dedup_call,         \* the calls of DeduplicationService made so far
    tau_run             \* one feed taken through the gate at two thresholds

ServiceVars == <<editorial, dedup_call, tau_run>>

\* the functions the later sections call on their own
VARIABLES
    telegram_call,      \* one format_for_telegram call and the post made of it
    publish,            \* TelegramPost rows and the mark_as_published calls made
    linkage,            \* raw, processed and short-form rows with their keys
    scrape              \* one call of scrape_subreddit

SupportVars == <<telegram_call, publish, linkage, scrape>>

\* the log manager, a run started from the interface, the generation client
VARIABLES
    logstore,           \* both log backends, given the same calls
    live_run,           \* one scrape_..._with_live_logs run and its session
    ollama_call         \* one request of OllamaService through its HTTP session

ClientVars == <<logstore, live_run, ollama_call>>

Sources == {"habr", "reddit"}

Terminal == {"completed", "failed"}

\* the record written by scrape_habr_endpoint / scrape_reddit_endpoint;
\* keys the handlers add later are "none" until they are written
NewJob(src) ==
    [status |-> "pending", source |-> src, started_at |-> "none",
     completed_at |-> "none", results |-> "none", error |-> "none"]

JobPresent(j) == j \in DOMAIN scraper_jobs

\* scraper_jobs = {} and no request in flight
JobsAtStart ==
    /\ scraper_jobs = <<>>
    /\ task_pc = [j \in JobIds |-> "unused"]
    /\ task_result = [j \in JobIds |-> "none"]
    /\ clear_pc = "idle"
    /\ job_ids_to_remove = {}

\* POST /scrape/habr and POST /scrape/reddit: async handlers, run on the
\* event loop, so never while clear_scrape_jobs is between its two loops.
SubmitJob(j, src) ==
    /\ clear_pc = "idle"
    /\ task_pc[j] = "unused"
    /\ \A k \in JobIds : k < j => task_pc[k] # "unused"
    /\ scraper_jobs' = scraper_jobs @@ (j :> NewJob(src))
    /\ task_pc' = [task_pc EXCEPT ![j] = "queued"]
    /\ UNCHANGED <<task_result, clear_pc, job_ids_to_remove, PipeVars, ServiceVars, SupportVars, ClientVars>>

\* a subscript assignment scraper_jobs[job_id][key] = value; KeyError when
\* the job is no longer in the dict sends the task to `onError`
SetField(j, key, value, next, onError) ==
    IF JobPresent(j)
    THEN /\ scraper_jobs' = [scraper_jobs EXCEPT ![j][key] = value]
         /\ task_pc' = [task_pc EXCEPT ![j] = next]
    ELSE /\ scraper_jobs' = scraper_jobs
         /\ task_pc' = [task_pc EXCEPT ![j] = onError]

\* line 1042 / 1074: status = "running"
TaskSetRunning(j) ==
    /\ task_pc[j] = "queued"
    /\ SetField(j, "status", "running", "started", "except")
    /\ UNCHANGED <<task_result, clear_pc, job_ids_to_remove, PipeVars, ServiceVars, SupportVars, ClientVars>>

\* line 1043 / 1075: started_at = now
TaskSetStarted(j) ==
    /\ task_pc[j] = "started"
    /\ SetField(j, "started_at", "set", "scrape", "except")
    /\ UNCHANGED <<task_result, clear_pc, job_ids_to_remove, PipeVars, ServiceVars, SupportVars, ClientVars>>

\* lines 1048-1057: import and call scrape_habr.  scrape_habr catches every
\* exception of the crawl and returns its stats with success False and an
\* error text (habr_scraper.py:937-961); the import itself may raise.
HabrScrapeOutcomes == {"ok", "unsuccessful", "raise"}

HabrTaskScrape(j) ==
    /\ task_pc[j] = "scrape"
    /\ JobPresent(j) /\ scraper_jobs[j].source = "habr"
    /\ \E out \in HabrScrapeOutcomes :
        IF out = "raise"
        THEN /\ task_pc' = [task_pc EXCEPT ![j] = "except"]
             /\ task_result' = task_result
        ELSE /\ task_pc' = [task_pc EXCEPT ![j] = "complete"]
             /\ task_result' = [task_result EXCEPT ![j] = out]
    /\ UNCHANGED <<scraper_jobs, clear_pc, job_ids_to_remove, PipeVars, ServiceVars, SupportVars, ClientVars>>

\* lines 1080-1097: get_reddit_client() may raise; evaluating
\* request.enable_deduplication raises AttributeError (RedditScrapeRequest,
\* lines 998-1003, has no such field), so scrape_subreddit is never entered.
RedditTaskScrape(j) ==
    /\ task_pc[j] = "scrape"
    /\ JobPresent(j) /\ scraper_jobs[j].source = "reddit"
    /\ task_pc' = [task_pc EXCEPT ![j] = "except"]
    /\ UNCHANGED <<scraper_jobs, task_result, clear_pc, job_ids_to_remove, PipeVars, ServiceVars, SupportVars, ClientVars>>

\* line 1059 / 1101: status = "completed"
TaskSetCompleted(j) ==
    /\ task_pc[j] = "complete"
    /\ SetField(j, "status", "completed", "completed_at", "except")
    /\ UNCHANGED <<task_result, clear_pc, job_ids_to_remove, PipeVars, ServiceVars, SupportVars, ClientVars>>

\* line 1060 / 1102: completed_at = now
TaskSetCompletedAt(j) ==
    /\ task_pc[j] = "completed_at"
    /\ SetField(j, "completed_at", "set", "results", "except")
    /\ UNCHANGED <<task_result, clear_pc, job_ids_to_remove, PipeVars, ServiceVars, SupportVars, ClientVars>>

\* line 1061 / 1103: results = result; then the function returns
TaskSetResults(j) ==
    /\ task_pc[j] = "results"
    /\ SetField(j, "results", task_result[j], "returned", "except")
    /\ UNCHANGED <<task_result, clear_pc, job_ids_to_remove, PipeVars, ServiceVars, SupportVars, ClientVars>>

\* except Exception, line 1067 / 1114: status = "failed"; a KeyError here is
\* raised inside the handler and leaves the function
TaskSetFailed(j) ==
    /\ task_pc[j] = "except"
    /\ SetField(j, "status", "failed", "failed_at", "raised")
    /\ UNCHANGED <<task_result, clear_pc, job_ids_to_remove, PipeVars, ServiceVars, SupportVars, ClientVars>>

\* line 1068 / 1115: completed_at = now
TaskSetFailedAt(j) ==
    /\ task_pc[j] = "failed_at"
    /\ SetField(j, "completed_at", "set", "error", "raised")
    /\ UNCHANGED <<task_result, clear_pc, job_ids_to_remove, PipeVars, ServiceVars, SupportVars, ClientVars>>

\* line 1069 / 1116: error = str(e); then the function returns
TaskSetError(j) ==
    /\ task_pc[j] = "error"
    /\ SetField(j, "error", "text", "returned", "raised")
    /\ UNCHANGED <<task_result, clear_pc, job_ids_to_remove, PipeVars, ServiceVars, SupportVars, ClientVars>>

\* a cleanup that takes every job, whatever its status
ClearSelectAll(jobs) == DOMAIN jobs

\* the jobs the first loop of clear_scrape_jobs selects (lines 1287-1290)
ClearSelect(jobs) == {k \in DOMAIN jobs : jobs[k].status \in Terminal}

\* DELETE /scrape/jobs, first loop
ClearScan ==
    /\ clear_pc = "idle"
    /\ job_ids_to_remove' = ClearSelect(scraper_jobs)
    /\ clear_pc' = "deleting"
    /\ UNCHANGED <<scraper_jobs, task_pc, task_result, PipeVars, ServiceVars, SupportVars, ClientVars>>

\* DELETE /scrape/jobs, second loop (lines 1292-1293) and return
ClearDelete ==
    /\ clear_pc = "deleting"
    /\ scraper_jobs' = [k \in (DOMAIN scraper_jobs) \ job_ids_to_remove |-> scraper_jobs[k]]
    /\ job_ids_to_remove' = {}
    /\ clear_pc' = "idle"
    /\ UNCHANGED <<task_pc, task_result, PipeVars, ServiceVars, SupportVars, ClientVars>>

NextJobs ==
    \/ \E j \in JobIds, src \in Sources : SubmitJob(j, src)
    \/ \E j \in JobIds : TaskSetRunning(j)
    \/ \E j \in JobIds : TaskSetStarted(j)
    \/ \E j \in JobIds : HabrTaskScrape(j)
    \/ \E j \in JobIds : RedditTaskScrape(j)
    \/ \E j \in JobIds : TaskSetCompleted(j)
    \/ \E j \in JobIds : TaskSetCompletedAt(j)
    \/ \E j \in JobIds : TaskSetResults(j)
    \/ \E j \in JobIds : TaskSetFailed(j)
    \/ \E j \in JobIds : TaskSetFailedAt(j)
    \/ \E j \in JobIds : TaskSetError(j)
    \/ ClearScan
    \/ ClearDelete

\* ========================================================================
\* ITEM PIPELINE (scrapers/habr_scraper.py, scrapers/reddit_scraper.py,
\* models/database.py, services/deduplication_service.py)
\* ========================================================================

\* check_duplicate's default threshold, in percent; parse_article passes none
Threshold == 85

\* the default of the semantic-duplicate threshold the specification names
DefaultTau == 95

\* similarity of the texts of two different articles, in percent: unrelated,
\* close, and near-identical
ScoreLevels == {50, 90, 97}

Pairs == {{a, b} : a, b \in Articles} \ {{a} : a \in Articles}

\* what a scraper run is: a HabrArticleSpider, the item loop of
\* scrape_subreddit, or a caller of save_reddit_post(post_data)
Kinds == {"habr", "reddit", "direct"}

Counters == {"saved", "skipped", "semantic_duplicates", "errors", "editorial_processed"}

\* Python's None as a return value; an id or a score is a one-element tuple
None == <<>>

Some(x) == <<x>>

\* locals of parse_article between two items
NoLocals == [url |-> 0, processed_content |-> "orig",
             kw_title |-> FALSE, kw_rewritten |-> FALSE, kw_extra |-> FALSE,
             llm_error |-> FALSE, stored_before |-> FALSE,
             embedded |-> TRUE, check |-> None]

\* a scraper run as constructed: HabrArticleSpider.__init__ (lines 80-127),
\* the counters of scrape_subreddit (lines 210-215)
NewWorker(kind, llm, dedup) ==
    [kind |-> kind, enable_llm |-> llm, enable_deduplication |-> dedup,
     pc |-> "idle", locals |-> NoLocals,
     stats |-> [c \in Counters |-> 0], collected |-> 0,
     handled |-> 0, passed_gate |-> {},
     result |-> "none", result_url |-> 0, result_stored |-> FALSE]

HabrWorkers == {NewWorker("habr", llm, dedup) : llm \in BOOLEAN, dedup \in BOOLEAN}

\* the runs are interchangeable: only one order of their settings is kept
Rank(s) == (IF s.enable_llm THEN 2 ELSE 0) + (IF s.enable_deduplication THEN 1 ELSE 0)

Ordered(ws) == \A v, w \in Workers : v < w => Rank(ws[v]) >= Rank(ws[w])

RedditWorkers == {NewWorker("reddit", TRUE, TRUE)}

DirectCallers == {NewWorker("direct", FALSE, FALSE)}

\* ---- the record store ---------------------------------------------------

\* rows of a table with this key, uncommitted ones included
RowsOf(table, key) == {i \in DOMAIN table : table[i].key = key}

\* repo.exists: a query sees the committed rows
Exists(table, key) == \E i \in RowsOf(table, key) : table[i].txn = 0

\* a column without a unique index: no INSERT conflicts
NoUniqueIndex(table, key) == FALSE

\* unique=True on article_id / post_id: an INSERT fails with IntegrityError
\* when a committed row holds the key
UniqueViolation(table, key) == \E i \in RowsOf(table, key) : table[i].txn = 0

\* ... and waits while another open transaction holds the key
InsertWaits(table, key, w) == \E i \in RowsOf(table, key) : table[i].txn \notin {0, w}

\* a failure path without rollback: the written rows stay
KeepRows(table, w) == table

\* session.rollback(): the rows of the transaction disappear
Rollback(table, w) == SelectSeq(table, LAMBDA r : r.txn # w)

\* session.commit(): the rows of the transaction become visible
CommitRows(table, w) ==
    [i \in DOMAIN table |-> IF table[i].txn = w THEN [table[i] EXCEPT !.txn = 0] ELSE table[i]]

\* ---- the vector index ---------------------------------------------------

\* an id drawn anew at every call
Uuid4(record_id) == <<"uuid4", record_id, Cardinality(DOMAIN qdrant)>>

\* _convert_id_to_uuid: uuid5(NAMESPACE_DNS, record_id), a function of the id
Uuid5(record_id) == <<"uuid5", record_id>>

\* similarity of a rewritten text to its original: unchanged, close, far
TextScore(version) ==
    CASE version = "orig" -> 100
      [] version = "close" -> 90
      [] OTHER -> 50

Min(x, y) == IF x < y THEN x ELSE y

\* cosine score of the original text of article a against a stored point
Score(a, point) ==
    Min(IF point.record_id = a THEN 100 ELSE similarity[{a, point.record_id}],
        TextScore(point.text))

\* a search that takes the threshold for a largest distance
SearchBelow(collection, a, threshold) ==
    {id \in DOMAIN collection : Score(a, collection[id]) <= threshold}

\* client.search(query_vector, score_threshold) on a collection: the points
\* whose score reaches the threshold
Search(collection, a, threshold) ==
    {id \in DOMAIN collection : Score(a, collection[id]) >= threshold}

\* the best hit of a search with limit=1
TopHits(collection, a, threshold) ==
    {id \in Search(collection, a, threshold) :
        \A other \in Search(collection, a, threshold) :
            Score(a, collection[id]) >= Score(a, collection[other])}

\* what check_duplicate returns: (True, record_id, score) for a hit,
\* (False, None, 0.0) without one, without a vector and on any exception
CheckDuplicateReturns(collection, a, threshold, out) ==
    IF out = "ok" /\ Search(collection, a, threshold) # {}
    THEN {[is_dup |-> TRUE, duplicate_id |-> Some(collection[id].record_id),
           score |-> Some(Score(a, collection[id]))] :
             id \in TopHits(collection, a, threshold)}
    ELSE {[is_dup |-> FALSE, duplicate_id |-> None, score |-> Some(0)]}

\* check_duplicate(text, source): search with limit 1 and score_threshold;
\* a missing collection and one without a close point answer alike
CheckDuplicate(a, threshold) == Search(qdrant, a, threshold) # {}

\* client.upsert of one point: the point with this id is replaced
Upsert(collection, text, record_id) ==
    (Uuid5(record_id) :> [record_id |-> record_id, text |-> text]) @@ collection

\* save_to_qdrant: embed and upsert by uuid; without a vector, or on any
\* exception, nothing is written and None is returned
SaveToQdrant(text, record_id, embedded) ==
    IF embedded THEN Upsert(qdrant, text, record_id) ELSE qdrant

\* ---- HabrArticleSpider.parse_article ------------------------------------

\* HabrArticleSpider's default article limit
max_articles == 10

Bump(stats, counter) == [stats EXCEPT ![counter] = @ + 1]

\* the handler is done with its item; `res` names the branch it left by,
\* result_stored tells whether the item's record was stored when it came
Done(s, res) ==
    [s EXCEPT !.pc = "idle", !.locals = NoLocals, !.handled = @ + 1,
              !.result = res, !.result_url = s.locals.url,
              !.result_stored = s.locals.stored_before]

Finish(s, counter, res) == Done([s EXCEPT !.stats = Bump(@, counter)], res)

RECURSIVE SumOver(_, _)
SumOver(f, S) ==
    IF S = {} THEN 0
    ELSE LET x == CHOOSE y \in S : TRUE IN f[x] + SumOver(f, S \ {x})

\* items taken up so far: those done and those in hand
TakenUp ==
    SumOver([w \in Workers |-> worker[w].handled + (IF worker[w].pc = "idle" THEN 0 ELSE 1)],
            Workers)

\* a response arrives: limit check, extraction, minimum content length
ParseArticle(w, a, content_ok) ==
    LET s == [worker[w] EXCEPT !.locals.url = a,
                               !.locals.stored_before = Exists(habr_articles, a)]
    IN
    /\ worker[w].kind = "habr" /\ worker[w].pc = "idle"
    /\ TakenUp < MaxItems
    /\ worker[w].collected < max_articles
    /\ worker' = [worker EXCEPT ![w] =
          IF ~content_ok
          THEN Finish(s, "skipped", "short_content")
          ELSE [s EXCEPT !.pc = IF s.enable_deduplication THEN "dedup" ELSE "llm"]]
    /\ UNCHANGED <<habr_articles, telegram_posts, reddit_posts, qdrant, similarity, JobVars, ServiceVars, SupportVars, ClientVars>>

\* the deduplication block: check_duplicate on the original title and
\* content; no vector or any exception counts as "not a duplicate"
CheckDuplicateGate(w) ==
    LET s == worker[w] IN
    /\ s.pc = "dedup"
    /\ \E embedded \in BOOLEAN :
         \E r \in CheckDuplicateReturns(qdrant, s.locals.url, Threshold,
                                        IF embedded THEN "ok" ELSE "no_vector") :
            worker' = [worker EXCEPT ![w] =
               IF r.is_dup
               THEN Finish(s, "semantic_duplicates", "semantic_duplicate")
               ELSE [s EXCEPT !.pc = "llm", !.passed_gate = @ \cup {s.locals.url},
                              !.locals.embedded = embedded, !.locals.check = Some(r)]]
    /\ UNCHANGED <<habr_articles, telegram_posts, reddit_posts, qdrant, similarity, JobVars, ServiceVars, SupportVars, ClientVars>>

\* process_post(default_relevant=True) without an error: the title may differ
\* from the original, rewritten_post may be absent, close to the original,
\* far from it or shorter than 50 characters, teaser/image_prompt may be absent
LlmResults ==
    {[title_changed |-> TRUE, rewritten |-> "close", extra |-> TRUE],
     [title_changed |-> FALSE, rewritten |-> "orig", extra |-> FALSE],
     [title_changed |-> FALSE, rewritten |-> "orig", extra |-> TRUE],
     [title_changed |-> FALSE, rewritten |-> "close", extra |-> TRUE],
     [title_changed |-> FALSE, rewritten |-> "far", extra |-> TRUE],
     [title_changed |-> FALSE, rewritten |-> "short", extra |-> TRUE]}

\* the service cannot be imported, the call raises, the result has 'error'
LlmFailures == {"import_error", "raise", "error"}

\* the LLM block of parse_article; is_dup, dup_id and score of the block
\* before are not read again
EditorialStage(w) ==
    LET s == [worker[w] EXCEPT !.locals.embedded = TRUE, !.locals.check = None] IN
    /\ worker[w].pc = "llm"
    /\ IF ~s.enable_llm
       THEN worker' = [worker EXCEPT ![w] = [s EXCEPT !.pc = "save"]]
       ELSE \/ \E f \in LlmFailures :
                 worker' = [worker EXCEPT ![w] =
                    [s EXCEPT !.pc = "save",
                              !.locals.llm_error = TRUE,
                              !.stats = IF f = "import_error" THEN @ ELSE Bump(@, "errors")]]
            \/ \E r \in LlmResults :
                 worker' = [worker EXCEPT ![w] =
                    [s EXCEPT !.pc = "save",
                              !.stats = Bump(@, "editorial_processed"),
                              !.locals.processed_content = r.rewritten,
                              !.locals.kw_title = r.title_changed,
                              !.locals.kw_rewritten = (r.rewritten # "orig"),
                              !.locals.kw_extra = r.extra]]
    /\ UNCHANGED <<habr_articles, telegram_posts, reddit_posts, qdrant, similarity, JobVars, ServiceVars, SupportVars, ClientVars>>

\* ---- save_habr_article --------------------------------------------------

\* validate_habr_article_data on the title and content that were passed
ValidateHabrArticleData(title_ok, content) == title_ok /\ content # "short"

\* process_post inside save_habr_article (enable_llm is forced to True)
Llm2Outcomes == {"import_error", "raise", "error", "plain", "rewritten"}

\* article_data as built from kwargs, llm_result and format_for_telegram;
\* llm_call tells whether process_post ran inside save_habr_article
ArticleData(from_kwargs, kw_rewritten, out, tg) ==
    IF from_kwargs
    THEN [is_news |-> TRUE, editorial_processed |-> TRUE, llm_call |-> FALSE,
          telegram_processed |-> kw_rewritten /\ tg, telegram_content |-> kw_rewritten /\ tg]
    ELSE CASE out = "import_error" ->
                [is_news |-> TRUE, editorial_processed |-> FALSE, llm_call |-> FALSE,
                 telegram_processed |-> FALSE, telegram_content |-> FALSE]
           [] out = "raise" ->
                [is_news |-> FALSE, editorial_processed |-> TRUE, llm_call |-> FALSE,
                 telegram_processed |-> FALSE, telegram_content |-> FALSE]
           [] out = "error" ->
                [is_news |-> FALSE, editorial_processed |-> TRUE, llm_call |-> TRUE,
                 telegram_processed |-> TRUE, telegram_content |-> FALSE]
           [] out = "plain" ->
                [is_news |-> TRUE, editorial_processed |-> TRUE, llm_call |-> TRUE,
                 telegram_processed |-> FALSE, telegram_content |-> FALSE]
           [] OTHER ->
                [is_news |-> TRUE, editorial_processed |-> TRUE, llm_call |-> TRUE,
                 telegram_processed |-> tg, telegram_content |-> tg]

\* the columns save_habr_article copies from kwargs and llm_result
\* (allowed_fields): relevance_reason is not among them, so none is stored
StoredRelevanceReason == "none"

\* the call save_habr_article(title=processed_title, ..., **save_kwargs) up
\* to the existence check: a 'title' key in save_kwargs is a second value for
\* the parameter title (TypeError, counted by the caller's except).  Whether
\* the extracted title has five characters is first looked at here.
SaveHabrArticle(w) ==
    LET s == worker[w]
        l == s.locals
    IN
    /\ s.pc = "save"
    /\ \E title_ok \in BOOLEAN :
         worker' = [worker EXCEPT ![w] =
            IF l.kw_title THEN Finish(s, "errors", "type_error")
            ELSE IF ~ValidateHabrArticleData(title_ok, l.processed_content)
                 THEN Finish(s, "skipped", "invalid")
            ELSE IF Exists(habr_articles, l.url) THEN Finish(s, "skipped", "exists")
            ELSE [s EXCEPT !.pc = "flush"]]
    /\ UNCHANGED <<habr_articles, telegram_posts, reddit_posts, qdrant, similarity, JobVars, ServiceVars, SupportVars, ClientVars>>

\* the vector block inside the transaction: dedup.is_connected() is no
\* method of DeduplicationService, the AttributeError is caught and logged,
\* and article.qdrant_id is never assigned
InTransactionVectorId == "none"

\* article_data is built (the result of process_post and of
\* format_for_telegram is first used here); session.add(article);
\* session.flush()
FlushArticle(w) ==
    LET s == worker[w]
        l == s.locals
        a == l.url
    IN
    /\ s.pc = "flush"
    /\ ~InsertWaits(habr_articles, a, w)
    /\ IF UniqueViolation(habr_articles, a)
       THEN /\ habr_articles' = Rollback(habr_articles, w)
            /\ worker' = [worker EXCEPT ![w] = Finish(s, "skipped", "integrity_error")]
       ELSE /\ \E out \in Llm2Outcomes, tg \in BOOLEAN :
                 LET d == ArticleData(l.kw_rewritten \/ l.kw_extra, l.kw_rewritten, out, tg)
                 IN habr_articles' = Append(habr_articles,
                        [key |-> a, txn |-> w, is_news |-> d.is_news,
                         editorial_processed |-> d.editorial_processed,
                         telegram_processed |-> d.telegram_processed,
                         telegram_content |-> d.telegram_content,
                         llm_call |-> d.llm_call,
                         relevance_reason |-> StoredRelevanceReason,
                         qdrant_id |-> InTransactionVectorId])
            /\ worker' = [worker EXCEPT ![w] = [s EXCEPT !.pc = "commit"]]
    /\ UNCHANGED <<telegram_posts, reddit_posts, qdrant, similarity, JobVars, ServiceVars, SupportVars, ClientVars>>

CommitOutcomes == {"ok", "commit_failed", "verify_failed"}

\* session.add(telegram_post); session.commit(); the read-back; the caller's
\* counters.  A failed commit is rolled back and save_habr_article returns
\* False; so does a failed read-back after a commit that went through.
CommitArticle(w) ==
    LET s == worker[w]
        a == s.locals.url
        has_post == \E i \in DOMAIN habr_articles :
                        habr_articles[i].txn = w /\ habr_articles[i].telegram_content
        flushed == IF has_post
                   THEN Append(telegram_posts, [key |-> a, txn |-> w, is_published |-> FALSE])
                   ELSE telegram_posts
    IN
    /\ s.pc = "commit"
    /\ \E out \in CommitOutcomes :
         IF out = "commit_failed" \/ (has_post /\ UniqueViolation(telegram_posts, a))
         THEN /\ habr_articles' = Rollback(habr_articles, w)
              /\ telegram_posts' = Rollback(flushed, w)
              /\ worker' = [worker EXCEPT ![w] =
                    Finish(s, "skipped",
                           IF out = "commit_failed" THEN "db_error" ELSE "integrity_error")]
         ELSE /\ habr_articles' = CommitRows(habr_articles, w)
              /\ telegram_posts' = CommitRows(flushed, w)
              /\ worker' = [worker EXCEPT ![w] =
                    IF out = "verify_failed" THEN Finish(s, "skipped", "verify_error")
                    ELSE IF s.enable_deduplication
                         THEN [s EXCEPT !.pc = "vectorize", !.stats = Bump(@, "saved"),
                                        !.collected = @ + 1]
                         ELSE Finish([s EXCEPT !.collected = @ + 1], "saved", "saved")]
    /\ UNCHANGED <<reddit_posts, qdrant, similarity, JobVars, ServiceVars, SupportVars, ClientVars>>

\* after a successful save: save_to_qdrant on the processed title and content
VectorizeArticle(w) ==
    LET s == worker[w] IN
    /\ s.pc = "vectorize"
    /\ \E embedded \in BOOLEAN :
         qdrant' = SaveToQdrant(s.locals.processed_content, s.locals.url, embedded)
    /\ worker' = [worker EXCEPT ![w] = Done(s, "saved")]
    /\ UNCHANGED <<habr_articles, telegram_posts, reddit_posts, similarity, JobVars, ServiceVars, SupportVars, ClientVars>>

\* ---- Reddit ---------------------------------------------------------------

\* a save_reddit_post that takes what scrape_subreddit passes
SaveRedditPostWithKeywords ==
    {"post_data", "check_semantic_duplicates", "process_with_editorial"}

\* the parameters of save_reddit_post and the keywords scrape_subreddit
\* passes besides post_data
SaveRedditPostParams == {"post_data"}

ScraperCallKeywords == {"check_semantic_duplicates", "process_with_editorial"}

\* one pass of scrape_subreddit's item loop: a keyword the function does not
\* take is a TypeError at the call, caught by the loop's except
ScrapeSubmission(w, p) ==
    LET s == [worker[w] EXCEPT !.locals.url = p,
                               !.locals.stored_before = Exists(reddit_posts, p)]
    IN
    /\ worker[w].kind = "reddit" /\ worker[w].pc = "idle"
    /\ TakenUp < MaxItems
    /\ worker' = [worker EXCEPT ![w] =
          IF ScraperCallKeywords \subseteq SaveRedditPostParams
          THEN IF Exists(reddit_posts, p) THEN Done(s, "exists")
               ELSE [s EXCEPT !.pc = "reddit_add"]
          ELSE Finish(s, "errors", "type_error")]
    /\ UNCHANGED <<habr_articles, telegram_posts, reddit_posts, qdrant, similarity, JobVars, ServiceVars, SupportVars, ClientVars>>

\* save_reddit_post(post_data) called with its own signature: the
\* existence check
SaveRedditPost(w, p) ==
    LET s == [worker[w] EXCEPT !.locals.url = p,
                               !.locals.stored_before = Exists(reddit_posts, p)]
    IN
    /\ worker[w].kind = "direct" /\ worker[w].pc = "idle"
    /\ TakenUp < MaxItems
    /\ worker' = [worker EXCEPT ![w] =
          IF Exists(reddit_posts, p) THEN Done(s, "exists")
          ELSE [s EXCEPT !.pc = "reddit_add"]]
    /\ UNCHANGED <<habr_articles, telegram_posts, reddit_posts, qdrant, similarity, JobVars, ServiceVars, SupportVars, ClientVars>>

\* repo.add(post); repo.commit(): a conflict or a failed commit raises out
\* of the with block, whose __exit__ rolls back
AddRedditPost(w) ==
    LET s == worker[w]
        p == s.locals.url
    IN
    /\ s.pc = "reddit_add"
    /\ \E committed \in BOOLEAN :
         IF UniqueViolation(reddit_posts, p) \/ ~committed
         THEN /\ reddit_posts' = Rollback(reddit_posts, w)
              /\ worker' = [worker EXCEPT ![w] = Done(s, "raised")]
         ELSE /\ reddit_posts' = Append(reddit_posts, [key |-> p, txn |-> 0])
              /\ worker' = [worker EXCEPT ![w] = Done(s, "saved")]
    /\ UNCHANGED <<habr_articles, telegram_posts, qdrant, similarity, JobVars, ServiceVars, SupportVars, ClientVars>>

\* ========================================================================
\* EDITORIAL SERVICE (services/editorial_service.py)
\* ========================================================================

\* a JSON value of the model's answer: its type, its number (scores in
\* percent, a bool as 0/1) and its text
V(t, n, s) == [t |-> t, n |-> n, s |-> s]

Absent == V("absent", 0, "")        \* the key is not in the object
Null == V("null", 0, "")            \* None
Bool(b) == V("bool", IF b THEN 1 ELSE 0, "")
Num(n) == V("num", n, "")
Str(s) == V("str", 0, s)
List == V("list", 0, "")            \* a non-empty list (or object)

INVALID_VALUES == {"N/A", "None", "null", "undefined", "none", "n/a", "NULL", "", "N", "A"}

\* str.lower() on the answers used here
Lower(s) ==
    CASE s = "Yes" -> "yes"
      [] s = "TRUE" -> "true"
      [] OTHER -> s

\* float(str): the percent value of a numeric text, -1 for ValueError
FloatOf(s) ==
    CASE s = "0.9" -> 90
      [] s = "1" -> 100
      [] OTHER -> -1

\* isinstance(x, (int, float)); bool is a subclass of int
IsNumber(v) == v.t \in {"num", "bool"}

\* float(x) of a number, in percent
NumValue(v) == IF v.t = "bool" THEN 100 * v.n ELSE v.n

\* the truth value Python gives the value
Truthy(v) ==
    CASE v.t = "bool" -> v.n = 1
      [] v.t = "num" -> v.n # 0
      [] v.t = "str" -> v.s # ""
      [] v.t = "list" -> TRUE
      [] OTHER -> FALSE

\* `field not in fixed_data or fixed_data[field] is None`
Missing(v) == v.t \in {"absent", "null"}

\* first loop of _validate_and_fix_response: invalid texts become None
CleanInvalid(v) == IF v.t = "str" /\ v.s \in INVALID_VALUES THEN Null ELSE v

Clamp(n) == IF n < 0 THEN 0 ELSE IF n > 100 THEN 100 ELSE n

\* _validate_and_fix_response on the three required fields, in the order of
\* REQUIRED_FIELDS; a value of a type no branch converts stays as it is
ValidateAndFixResponse(data) ==
    LET d0 == [f \in DOMAIN data |-> CleanInvalid(data[f])]
        is_news ==
            IF Missing(d0.is_news)
            THEN Bool(IsNumber(d0.relevance_score) /\ NumValue(d0.relevance_score) > 60)
            ELSE IF d0.is_news.t = "str"
                 THEN Bool(Lower(d0.is_news.s) \in {"true", "1", "yes"})
                 ELSE d0.is_news
        score ==
            IF Missing(d0.relevance_score)
            THEN Num(IF Truthy(is_news) THEN 70 ELSE 30)
            ELSE IF d0.relevance_score.t = "str"
                 THEN IF FloatOf(d0.relevance_score.s) >= 0
                      THEN Num(FloatOf(d0.relevance_score.s))
                      ELSE Num(IF Truthy(is_news) THEN 70 ELSE 30)
                 ELSE d0.relevance_score
        reason ==
            IF Missing(d0.relevance_reason)
            THEN Str(IF Truthy(is_news) THEN "fits" ELSE "does not fit")
            ELSE d0.relevance_reason
    IN [is_news |-> is_news,
        relevance_score |-> IF IsNumber(score) THEN Num(Clamp(NumValue(score))) ELSE score,
        relevance_reason |-> reason]

\* what the model answers: ollama.generate raises or returns nothing, or
\* the text is prose, JSON that is no object, an object, an object in a
\* markdown fence, or an object written with single quotes
ResponseKinds == {"raise", "empty", "prose", "array", "object", "fenced", "single_quoted"}

\* _clean_json_string and json.loads: an object, another JSON value, or a
\* JSONDecodeError; single quotes parse once they are replaced
JsonLoads(kind, quotes_replaced) ==
    CASE kind \in {"object", "fenced"} -> "dict"
      [] kind = "single_quoted" -> IF quotes_replaced THEN "dict" ELSE "decode_error"
      [] kind = "array" -> "not_dict"
      [] OTHER -> "decode_error"

NoData == [is_news |-> Absent, relevance_score |-> Absent, relevance_reason |-> Absent]

\* _parse_json_response: the validated object or {'error': ...}
ParseJsonResponse(response) ==
    LET first == JsonLoads(response.kind, FALSE)
        parsed == [error |-> FALSE, data |-> ValidateAndFixResponse(response.fields)]
        failed == [error |-> TRUE, data |-> NoData]
    IN CASE first = "dict" -> parsed
         [] first = "not_dict" -> failed
         [] OTHER -> IF JsonLoads(response.kind, TRUE) = "dict" THEN parsed ELSE failed

\* the three fallback results of process_post (empty answer, parse error,
\* exception); with default_relevant the reason is a fixed Habr sentence
Fallback(default_relevant, why) ==
    [is_news |-> Bool(default_relevant),
     relevance_score |-> Num(IF default_relevant THEN 80 ELSE 0),
     relevance_reason |-> Str(IF ~default_relevant THEN "failure"
                              ELSE IF why = "exception" THEN "habr, saved despite the error"
                              ELSE "habr, saved by default"),
     error |-> TRUE]

\* the end of process_post: metadata and the default_relevant block.  The
\* score is raised to 0.8 first and compared with 0.8 afterwards; max() of a
\* list and a float is a TypeError, caught by the function's except
ProcessPostResult(parsed, default_relevant) ==
    IF parsed.error THEN Fallback(default_relevant, "parse")
    ELSE IF ~default_relevant
         THEN [is_news |-> parsed.data.is_news,
               relevance_score |-> parsed.data.relevance_score,
               relevance_reason |-> parsed.data.relevance_reason,
               error |-> FALSE]
    ELSE IF ~IsNumber(parsed.data.relevance_score)
         THEN Fallback(default_relevant, "exception")
    ELSE LET raised == IF parsed.data.relevance_score.n < 80 THEN 80
                       ELSE parsed.data.relevance_score.n
         IN [is_news |-> Bool(TRUE),
             relevance_score |-> Num(raised),
             relevance_reason |-> IF raised < 80 THEN Str("habr, original score noted")
                                  ELSE parsed.data.relevance_reason,
             error |-> FALSE]

NoParse == [error |-> FALSE, data |-> NoData]

NoResult == [is_news |-> Absent, relevance_score |-> Absent,
             relevance_reason |-> Absent, error |-> FALSE]

\* no process_post call is under way
NoCall == [pc |-> "none", default_relevant |-> FALSE,
           response |-> [kind |-> "empty", fields |-> NoData],
           parsed |-> NoParse, result |-> NoResult]

\* values the model may give the three required fields
IsNewsAnswers == {Absent, Str("N/A"), Bool(TRUE), Bool(FALSE), Str("Yes"), Str("maybe"), Num(1)}

ScoreAnswers == {Absent, Num(30), Num(90), Num(150), Num(0 - 20), Str("0.9"), Str("high"), List}

ReasonAnswers == {Absent, Str("because"), Num(5)}

Responses ==
    {[kind |-> k, fields |-> NoData] : k \in ResponseKinds \ {"object", "fenced", "single_quoted"}}
    \cup {[kind |-> k, fields |-> [is_news |-> i, relevance_score |-> sc, relevance_reason |-> r]] :
            k \in {"object"}, i \in IsNewsAnswers, sc \in ScoreAnswers, r \in ReasonAnswers}
    \cup {[kind |-> k, fields |-> [is_news |-> Bool(FALSE), relevance_score |-> Num(30),
                                  relevance_reason |-> Str("because")]] :
            k \in {"fenced", "single_quoted"}}

\* response = self.ollama.generate(...); `if not response` returns at once
ProcessPostGenerate ==
    /\ editorial.pc = "called"
    /\ editorial' =
          IF editorial.response.kind = "raise"
          THEN [editorial EXCEPT !.pc = "returned",
                                 !.result = Fallback(editorial.default_relevant, "exception")]
          ELSE IF editorial.response.kind = "empty"
          THEN [editorial EXCEPT !.pc = "returned",
                                 !.result = Fallback(editorial.default_relevant, "empty")]
          ELSE [editorial EXCEPT !.pc = "generated"]
    /\ UNCHANGED <<dedup_call, tau_run, JobVars, PipeVars, SupportVars, ClientVars>>

\* result = self._parse_json_response(response)
ProcessPostParse ==
    /\ editorial.pc = "generated"
    /\ editorial' = [editorial EXCEPT !.pc = "parsed",
                                      !.parsed = ParseJsonResponse(editorial.response)]
    /\ UNCHANGED <<dedup_call, tau_run, JobVars, PipeVars, SupportVars, ClientVars>>

\* the rest of process_post
ProcessPostReturn ==
    /\ editorial.pc = "parsed"
    /\ editorial' = [editorial EXCEPT !.pc = "returned",
                                      !.result = ProcessPostResult(editorial.parsed,
                                                                   editorial.default_relevant)]
    /\ UNCHANGED <<dedup_call, tau_run, JobVars, PipeVars, SupportVars, ClientVars>>

NextEditorial == ProcessPostGenerate \/ ProcessPostParse \/ ProcessPostReturn

\* ========================================================================
\* DEDUPLICATION SERVICE called on its own
\* (services/deduplication_service.py)
\* ========================================================================

MaxCalls == 3       \* calls of the service in one behaviour

\* versions of a text that may be stored for one record id
TextVersions == {"orig", "close", "far"}

\* the thresholds a caller passes: the function's default and 0.95
CallThresholds == {85, 95}

\* the embedding request and the vector store at one call
CallOutcomes == {"ok", "no_vector", "raise"}

\* no call has been made
NoDedupCalls == <<>>

\* one call of save_to_qdrant(text, record_id, metadata, "habr")
CallSaveToQdrant(text, a, out) ==
    /\ Len(dedup_call) < MaxCalls
    /\ qdrant' = SaveToQdrant(text, a, out = "ok")
    /\ dedup_call' = Append(dedup_call,
          [op |-> "save_to_qdrant", record_id |-> a, out |-> out,
           ret |-> IF out = "ok" THEN Some(Uuid5(a)) ELSE None])
    /\ UNCHANGED <<worker, habr_articles, telegram_posts, reddit_posts, similarity,
                   editorial, tau_run, JobVars, SupportVars, ClientVars>>

\* one call of check_duplicate(text, "habr", threshold) on an original text
CallCheckDuplicate(a, threshold, out) ==
    /\ Len(dedup_call) < MaxCalls
    /\ \E r \in CheckDuplicateReturns(qdrant, a, threshold, out) :
         dedup_call' = Append(dedup_call,
            [op |-> "check_duplicate", record_id |-> a, out |-> out, ret |-> Some(r)])
    /\ UNCHANGED <<worker, habr_articles, telegram_posts, reddit_posts, qdrant, similarity,
                   editorial, tau_run, JobVars, SupportVars, ClientVars>>

NextDedup ==
    \/ \E text \in TextVersions, a \in Articles, out \in CallOutcomes :
            CallSaveToQdrant(text, a, out)
    \/ \E a \in Articles, threshold \in CallThresholds, out \in CallOutcomes :
            CallCheckDuplicate(a, threshold, out)

\* ---- one feed at two thresholds -----------------------------------------

MaxFeed == 3        \* items of the feed

Texts == 1..(MaxArticles + 1)

TextPairs == {{a, b} : a, b \in Texts} \ {{a} : a \in Texts}

Feeds == UNION {[1..n -> Texts] : n \in 1..MaxFeed}

\* no feed is being run
NoFeed == [feed |-> <<>>, pos |-> 0, hi |-> 0, lo |-> 0,
           coll_hi |-> <<>>, coll_lo |-> <<>>, flagged_hi |-> {}, flagged_lo |-> {}]

\* parse_article for one item with the LLM off and every service answering:
\* the gate on the original text, then the save and save_to_qdrant
GateAndRemember(collection, a, threshold) ==
    IF Search(collection, a, threshold) # {}
    THEN [flagged |-> TRUE, collection |-> collection]
    ELSE [flagged |-> FALSE, collection |-> Upsert(collection, "orig", a)]

\* the next item of the feed goes through both runs
RunNextItem ==
    LET n == tau_run.pos + 1
        a == tau_run.feed[n]
        h == GateAndRemember(tau_run.coll_hi, a, tau_run.hi)
        l == GateAndRemember(tau_run.coll_lo, a, tau_run.lo)
    IN
    /\ tau_run.pos < Len(tau_run.feed)
    /\ tau_run' = [tau_run EXCEPT
          !.pos = n,
          !.coll_hi = h.collection,
          !.coll_lo = l.collection,
          !.flagged_hi = IF h.flagged THEN @ \cup {n} ELSE @,
          !.flagged_lo = IF l.flagged THEN @ \cup {n} ELSE @]
    /\ UNCHANGED <<editorial, dedup_call, JobVars, PipeVars, SupportVars, ClientVars>>

NextTau == RunNextItem

\* ========================================================================
\* SHORT FORM (EditorialService.format_for_telegram, the Telegram block and
\* the TelegramPost of save_habr_article)
\* ========================================================================

\* the largest short form the formatting prompt asks for
MaxChars == 3500

\* len() of the texts the model may return as telegram_formatted
CharLen(text) ==
    CASE text = "brief" -> 1200
      [] text = "at_limit" -> MaxChars
      [] text = "long" -> 4200
      [] OTHER -> 0

required_fields ==
    {"telegram_title", "telegram_content", "telegram_hashtags",
     "telegram_formatted", "character_count"}

NoTelegramFields == [f \in required_fields |-> Absent]

\* the answers of the model to the formatting prompt: an object with the five
\* fields, each present or not, the text short or long, the count right,
\* wrong, zero or a text
TelegramAnswers ==
    {[kind |-> k, fields |-> NoTelegramFields] : k \in {"raise", "empty", "prose", "array"}}
    \cup {[kind |-> "object",
           fields |-> [telegram_title |-> t, telegram_content |-> c,
                       telegram_hashtags |-> h, telegram_formatted |-> f,
                       character_count |-> n]] :
            t \in {Absent, Str("title")}, c \in {Str("N/A"), Str("body")},
            h \in {Str(""), Str("#ai")},
            f \in {Absent, Str("brief"), Str("at_limit"), Str("long")},
            n \in {Absent, Num(0), Num(1200), Num(MaxChars), Num(4200), Str("1200")}}

\* missing = [f for f in required_fields if not result.get(f)]
MissingFields(fields) == {f \in required_fields : ~Truthy(fields[f])}

\* format_for_telegram: generate, _parse_json_response (whose first loop
\* turns the invalid texts into None), the required fields; the result has
\* an 'error' or the five fields as the model gave them
FormatForTelegramResult(answer) ==
    LET cleaned == [f \in required_fields |-> CleanInvalid(answer.fields[f])] IN
    IF answer.kind \in {"raise", "empty"} \/ JsonLoads(answer.kind, FALSE) # "dict"
    THEN [error |-> TRUE, missing |-> {}, fields |-> NoTelegramFields]
    ELSE IF MissingFields(cleaned) # {}
    THEN [error |-> TRUE, missing |-> MissingFields(cleaned), fields |-> NoTelegramFields]
    ELSE [error |-> FALSE, missing |-> {}, fields |-> cleaned]

NoTelegramResult == [error |-> FALSE, missing |-> {}, fields |-> NoTelegramFields]

\* format_for_telegram is not being called
NoTelegramCall == [pc |-> "none", answer |-> [kind |-> "empty", fields |-> NoTelegramFields],
                   result |-> NoTelegramResult, article_data |-> NoTelegramFields,
                   post |-> None]

\* telegram_result = editorial.format_for_telegram(title, content)
FormatForTelegram ==
    /\ telegram_call.pc = "called"
    /\ telegram_call' = [telegram_call EXCEPT
          !.pc = "formatted", !.result = FormatForTelegramResult(telegram_call.answer)]
    /\ UNCHANGED <<publish, linkage, scrape, JobVars, PipeVars, ServiceVars, ClientVars>>

\* `if not telegram_result.get('error')`: the five values go into
\* article_data; `if article_data.get('telegram_content')`: the TelegramPost
\* is made of them, character_count as the model stated it
CreateTelegramPost ==
    LET r == telegram_call.result
        data == IF r.error THEN NoTelegramFields ELSE r.fields
    IN
    /\ telegram_call.pc = "formatted"
    /\ telegram_call' = [telegram_call EXCEPT
          !.pc = "stored",
          !.article_data = data,
          !.post = IF Truthy(data.telegram_content)
                   THEN Some([content |-> data.telegram_content,
                              formatted_content |-> data.telegram_formatted,
                              character_count |-> data.character_count])
                   ELSE None]
    /\ UNCHANGED <<publish, linkage, scrape, JobVars, PipeVars, ServiceVars, ClientVars>>

NextTelegram == FormatForTelegram \/ CreateTelegramPost
\* ---- TelegramPostRepository.mark_as_published --------------------------

MaxPosts == 2       \* TelegramPost rows ever created
MaxMarks == 3       \* calls of mark_as_published in one behaviour

PostIds == 1..MaxPosts

\* what a caller may pass as message_id: an integer, or None (the
\* annotation `int` is not enforced)
MessageIds == {None, Some(0), Some(7)}

\* a TelegramPost as save_habr_article creates it: is_published takes the
\* column default False, published_at and telegram_message_id are NULL
NewTelegramPost == [is_published |-> FALSE, published_at |-> None,
                    telegram_message_id |-> None]

\* a marking that sets the flag alone
MarkedFlagOnly(post, message_id, now) == [post EXCEPT !.is_published = TRUE]

\* the three assignments of mark_as_published
Marked(post, message_id, now) ==
    [is_published |-> TRUE, published_at |-> Some(now),
     telegram_message_id |-> message_id]

\* no row, no call
NothingPublished == [posts |-> <<>>, calls |-> <<>>]

\* session.add(telegram_post); session.commit()
AddTelegramPost ==
    /\ Len(publish.posts) < MaxPosts
    /\ publish' = [publish EXCEPT !.posts = Append(@, NewTelegramPost)]
    /\ UNCHANGED <<telegram_call, linkage, scrape, JobVars, PipeVars, ServiceVars, ClientVars>>

\* mark_as_published(post_id, message_id): get_by_id, the assignments and
\* the commit; a commit that fails raises and leaves the row as it was
MarkAsPublished(post_id, message_id, committed) ==
    LET found == post_id \in DOMAIN publish.posts
        now == Len(publish.calls) + 1
    IN
    /\ Len(publish.calls) < MaxMarks
    /\ publish' = [posts |-> IF found /\ committed
                             THEN [publish.posts EXCEPT
                                      ![post_id] = Marked(@, message_id, now)]
                             ELSE publish.posts,
                   calls |-> Append(publish.calls,
                                [post_id |-> post_id, message_id |-> message_id,
                                 ret |-> IF ~found THEN "False"
                                         ELSE IF committed THEN "True" ELSE "raised"])]
    /\ UNCHANGED <<telegram_call, linkage, scrape, JobVars, PipeVars, ServiceVars, ClientVars>>

NextPublish ==
    \/ AddTelegramPost
    \/ \E post_id \in PostIds, message_id \in MessageIds, committed \in BOOLEAN :
            MarkAsPublished(post_id, message_id, committed)
\* ---- foreign keys of the record store -----------------------------------

\* the four tables by key and the one open transaction of save_habr_article
EmptyTables ==
    [habr_articles |-> {}, telegram_posts |-> {}, reddit_posts |-> {},
     processed_reddit_posts |-> {}, txn |-> None, ret |-> "none"]

\* a column that references nothing
NoForeignKey(parent_keys, key) == FALSE

\* ForeignKey('reddit_posts.post_id') / ForeignKey('habr_articles.article_id'):
\* an INSERT whose key has no parent row fails with IntegrityError
ForeignKeyViolation(parent_keys, key) == key \notin parent_keys

\* the rows of the open transaction
InFlight == IF linkage.txn = None THEN {} ELSE {linkage.txn[1]}

\* the habr_articles keys a transaction sees: the committed rows and its own
VisibleArticles == linkage.habr_articles \cup {t.article_id : t \in InFlight}

\* every row that references a raw record, with the table it references
LinkRows ==
    {[child |-> "telegram_posts", key |-> k] : k \in linkage.telegram_posts}
    \cup {[child |-> "telegram_posts", key |-> t.article_id] :
            t \in {x \in InFlight : x.telegram_post}}
    \cup {[child |-> "processed_reddit_posts", key |-> k] :
            k \in linkage.processed_reddit_posts}

\* save_habr_article up to session.flush(): the article row is in the
\* session; an article that is stored already leaves at the existence check
FlushHabrArticle(a) ==
    /\ linkage.txn = None
    /\ linkage' =
          IF a \in linkage.habr_articles
          THEN [linkage EXCEPT !.ret = "exists"]
          ELSE [linkage EXCEPT !.txn = Some([article_id |-> a, telegram_post |-> FALSE]),
                               !.ret = "flushed"]
    /\ UNCHANGED <<telegram_call, publish, scrape, JobVars, PipeVars, ServiceVars, ClientVars>>

\* session.add(telegram_post) for the article of the same transaction
AddTelegramPostRow ==
    /\ linkage.txn # None /\ ~linkage.txn[1].telegram_post
    /\ linkage' =
          IF ForeignKeyViolation(VisibleArticles, linkage.txn[1].article_id)
          THEN [linkage EXCEPT !.txn = None, !.ret = "integrity_error"]
          ELSE [linkage EXCEPT !.txn = Some([@[1] EXCEPT !.telegram_post = TRUE]),
                               !.ret = "post_added"]
    /\ UNCHANGED <<telegram_call, publish, scrape, JobVars, PipeVars, ServiceVars, ClientVars>>

\* session.commit(), or session.rollback() in the except branches: the rows
\* of the transaction are stored together or not at all
EndHabrTransaction(committed) ==
    /\ linkage.txn # None
    /\ linkage' =
          IF committed
          THEN [linkage EXCEPT
                  !.habr_articles = @ \cup {linkage.txn[1].article_id},
                  !.telegram_posts = IF linkage.txn[1].telegram_post
                                     THEN @ \cup {linkage.txn[1].article_id} ELSE @,
                  !.txn = None, !.ret = "committed"]
          ELSE [linkage EXCEPT !.txn = None, !.ret = "rolled_back"]
    /\ UNCHANGED <<telegram_call, publish, scrape, JobVars, PipeVars, ServiceVars, ClientVars>>

\* RedditService.save_post / save_reddit_post: one committed raw row
SaveRawRedditPost(p) ==
    /\ linkage' =
          IF p \in linkage.reddit_posts
          THEN [linkage EXCEPT !.ret = "exists"]
          ELSE [linkage EXCEPT !.reddit_posts = @ \cup {p}, !.ret = "raw_saved"]
    /\ UNCHANGED <<telegram_call, publish, scrape, JobVars, PipeVars, ServiceVars, ClientVars>>

\* ProcessedRedditService.save_processed_post: is_processed, add, commit;
\* the IntegrityError of a missing raw row is caught and False returned
SaveProcessedPost(p) ==
    /\ linkage' =
          IF p \in linkage.processed_reddit_posts
          THEN [linkage EXCEPT !.ret = "already_processed"]
          ELSE IF ForeignKeyViolation(linkage.reddit_posts, p)
          THEN [linkage EXCEPT !.ret = "integrity_error"]
          ELSE [linkage EXCEPT !.processed_reddit_posts = @ \cup {p},
                               !.ret = "processed_saved"]
    /\ UNCHANGED <<telegram_call, publish, scrape, JobVars, PipeVars, ServiceVars, ClientVars>>

\* BaseRepository.delete of a RedditPost and the commit: the relationship
\* processed_post has cascade "all, delete-orphan"
DeleteRedditPost(p) ==
    /\ p \in linkage.reddit_posts
    /\ linkage' = [linkage EXCEPT
          !.reddit_posts = @ \ {p},
          !.processed_reddit_posts = @ \ {p},
          !.ret = IF p \in linkage.processed_reddit_posts
                  THEN "cascade_deleted" ELSE "deleted"]
    /\ UNCHANGED <<telegram_call, publish, scrape, JobVars, PipeVars, ServiceVars, ClientVars>>

\* BaseRepository.delete of a HabrArticle and the commit: the backref
\* telegram_posts has no delete cascade, the unit of work sets the post's
\* article_id to NULL, which nullable=False refuses; nothing is deleted
DeleteHabrArticle(a) ==
    /\ linkage.txn = None
    /\ a \in linkage.habr_articles
    /\ linkage' =
          IF a \in linkage.telegram_posts
          THEN [linkage EXCEPT !.ret = "delete_refused"]
          ELSE [linkage EXCEPT !.habr_articles = @ \ {a}, !.ret = "deleted"]
    /\ UNCHANGED <<telegram_call, publish, scrape, JobVars, PipeVars, ServiceVars, ClientVars>>

NextLinkage ==
    \/ \E a \in Articles : FlushHabrArticle(a)
    \/ AddTelegramPostRow
    \/ \E committed \in BOOLEAN : EndHabrTransaction(committed)
    \/ \E p \in Articles : SaveRawRedditPost(p)
    \/ \E p \in Articles : SaveProcessedPost(p)
    \/ \E p \in Articles : DeleteRedditPost(p)
    \/ \E a \in Articles : DeleteHabrArticle(a)
\* ========================================================================
\* scrape_subreddit (scrapers/reddit_scraper.py)
\* ========================================================================

MaxListing == 2     \* posts a listing yields in one attempt

\* values of the parameter max_retries (its default is 3)
RetryLimits == {0, 1, 3}

JobCounters == {"saved", "skipped", "semantic_duplicates"}

\* saved_count = skipped_count = ... = 0 at the start of an attempt
ZeroCounters == [c \in Counters |-> 0]

\* what ends an attempt early: RedditAuthError of get_reddit_client, a
\* ResponseException with status 429 or another status, any other exception
AttemptErrors == {"auth", "http_429", "http", "exception"}

\* scrape_subreddit is not being called
NoScrape == [pc |-> "none", retry_on_error |-> TRUE, max_retries |-> 0, max_posts |-> 0,
             retry_count |-> 0, attempts |-> 0, counters |-> ZeroCounters, idx |-> 0,
             failures |-> <<>>, ret |-> None]

\* a pause of the same length after every error
FixedDelay(retry_count) == 2

\* wait_time = 2 ** retry_count
Backoff(retry_count) == 2 ^ retry_count

\* time.sleep before `continue`: the backoff after a 429, two seconds else
SleepFor(cause, retry_count) == IF cause = "http_429" THEN Backoff(retry_count) ELSE 2

error_type(cause) ==
    CASE cause = "auth" -> "auth"
      [] cause = "http_429" -> "rate_limit"
      [] cause = "http" -> "http"
      [] OTHER -> "unknown"

\* the result mapping of a return without a completed attempt
Failed(type, retries) ==
    Some([success |-> FALSE, error_type |-> type, retries |-> retries, counters |-> None])

\* the except branches: RedditAuthError returns at once; the others count
\* the retry and either sleep and `continue` or return.  Each failure is
\* noted with the pause that followed it (0 for none).
AfterError(s, cause) ==
    LET rc == s.retry_count + 1 IN
    IF cause = "auth"
    THEN [s EXCEPT !.pc = "returned",
                   !.failures = Append(@, [cause |-> cause, retry_count |-> s.retry_count,
                                           slept |-> 0]),
                   !.ret = Failed(error_type(cause), s.retry_count)]
    ELSE IF rc <= s.max_retries /\ s.retry_on_error
    THEN [s EXCEPT !.pc = "loop", !.retry_count = rc,
                   !.failures = Append(@, [cause |-> cause, retry_count |-> rc,
                                           slept |-> SleepFor(cause, rc)])]
    ELSE [s EXCEPT !.pc = "returned", !.retry_count = rc,
                   !.failures = Append(@, [cause |-> cause, retry_count |-> rc, slept |-> 0]),
                   !.ret = Failed(error_type(cause), rc)]

\* `while retry_count <= max_retries`: get_reddit_client, the lazy listing,
\* the counters set to zero; after the loop the last return
BeginAttempt(outcome) ==
    /\ scrape.pc = "loop"
    /\ scrape' =
          IF scrape.retry_count > scrape.max_retries
          THEN [scrape EXCEPT !.pc = "returned",
                              !.ret = Failed("max_retries_exceeded", scrape.retry_count)]
          ELSE LET s == [scrape EXCEPT !.attempts = @ + 1] IN
               IF outcome = "ok"
               THEN [s EXCEPT !.pc = "items", !.counters = ZeroCounters, !.idx = 0]
               ELSE AfterError(s, outcome)
    /\ UNCHANGED <<telegram_call, publish, linkage, JobVars, PipeVars, ServiceVars, ClientVars>>

\* result['saved'] and result['reason'] as the loop reads them
ItemResults == {"saved", "duplicate_id", "duplicate_semantic", "too_short", "unknown"}

\* the counter the loop adds to for a result
CounterOf(reason) ==
    CASE reason = "saved" -> "saved"
      [] reason \in {"duplicate_id", "too_short"} -> "skipped"
      [] reason = "duplicate_semantic" -> "semantic_duplicates"
      [] OTHER -> "errors"

\* one pass of `for idx, submission in enumerate(posts, 1)`: the listing
\* yields a post, ends, or its request fails (outside the inner try).  For a
\* post, save_reddit_post is called with keywords it does not take: the
\* TypeError is counted by the inner except and `result` is never read
NextSubmission(outcome, reason) ==
    /\ scrape.pc = "items"
    /\ outcome = "item" => scrape.idx < scrape.max_posts
    /\ scrape' =
          CASE outcome = "item" ->
                  [scrape EXCEPT !.idx = @ + 1,
                                 !.counters = IF ScraperCallKeywords \subseteq SaveRedditPostParams
                                              THEN Bump(@, CounterOf(reason))
                                              ELSE Bump(@, "errors")]
            [] outcome = "end" ->
                  [scrape EXCEPT !.pc = "returned",
                                 !.ret = Some([success |-> TRUE, error_type |-> "none",
                                               retries |-> scrape.retry_count,
                                               counters |-> Some(scrape.counters)])]
            [] OTHER -> AfterError(scrape, outcome)
    /\ UNCHANGED <<telegram_call, publish, linkage, JobVars, PipeVars, ServiceVars, ClientVars>>

NextScrape ==
    \/ \E outcome \in {"ok"} \cup AttemptErrors : BeginAttempt(outcome)
    \/ \E outcome \in {"item", "end"} \cup (AttemptErrors \ {"auth"}), reason \in ItemResults :
            NextSubmission(outcome, reason)

\* ------------------------------------------------------------------------
\* The log store (src/utils/log_manager.py): RedisLogStorage and
\* FileLogStorage, side by side and given the same calls
\* ------------------------------------------------------------------------
MaxAdds == 4        \* add_log calls in one behaviour
MaxLogCap == 2      \* largest max_logs tried (the program runs with 1000)
MaxLimit == 3       \* largest limit asked of get_logs

LogSessions == {"s1", "s2"}

\* LogEntry: seq stands for (timestamp, level, message), which differ from
\* one call to the next
LogEntry(seq, session_id) == [seq |-> seq, session_id |-> session_id]

Reverse(list) == [i \in 1..Len(list) |-> list[Len(list) + 1 - i]]

Max(x, y) == IF x > y THEN x ELSE y

\* a Redis list (element 1 is the head): LPUSH of several values pushes them
\* one after the other, so the last value pushed is the new head
LPush(list, values) == Reverse(values) \o list

\* Redis index: 0 is the head, -1 the tail
LIndex(list, i) == IF i < 0 THEN Len(list) + i ELSE i

\* LRANGE and what LTRIM keeps: the elements start..stop, both inclusive
LRange(list, start, stop) ==
    LET a == Max(0, LIndex(list, start))
        b == Min(Len(list) - 1, LIndex(list, stop))
    IN  IF a > b THEN <<>> ELSE SubSeq(list, a + 1, b + 1)

\* Python list[:n] for n >= 0
SliceFirst(list, n) == SubSeq(list, 1, Min(n, Len(list)))

\* Python list[-n:] for n >= 0 (list[-0:] is the whole list)
SliceLast(list, n) ==
    IF n = 0 \/ n >= Len(list) THEN list
    ELSE SubSeq(list, Len(list) - n + 1, Len(list))

OfSession(list, session_id) == SelectSeq(list, LAMBDA e : e.session_id = session_id)

NotOfSession(list, session_id) == SelectSeq(list, LAMBDA e : e.session_id # session_id)

\* RedisLogStorage.add_log
RedisAddLog(list, entry, max_logs) == LRange(LPush(list, <<entry>>), 0, max_logs - 1)

\* FileLogStorage.add_log
FileAddLog(list, entry, max_logs) ==
    LET logs == Append(list, entry)
    IN  IF Len(logs) > max_logs THEN SliceLast(logs, max_logs) ELSE logs

\* RedisLogStorage.get_logs: the first `limit` of the list, then the filter
RedisGetLogs(list, limit, session_id) ==
    LET logs == LRange(list, 0, limit - 1)
    IN  IF session_id = None THEN logs ELSE OfSession(logs, session_id[1])

\* FileLogStorage.get_logs: the last `limit` of the list, then the filter
FileGetLogs(list, limit, session_id) ==
    LET logs == IF Len(list) > limit THEN SliceLast(list, limit) ELSE list
    IN  IF session_id # None THEN OfSession(logs, session_id[1]) ELSE logs

\* RedisLogStorage.clear_logs
RedisClearLogs(list, session_id) ==
    IF session_id # None
    THEN LET to_keep == NotOfSession(LRange(list, 0, -1), session_id[1])
         IN  IF to_keep # <<>> THEN LPush(<<>>, to_keep) ELSE <<>>
    ELSE <<>>

\* FileLogStorage.clear_logs
FileClearLogs(list, session_id) ==
    IF session_id # None THEN NotOfSession(list, session_id[1]) ELSE <<>>

\* close_session of either backend: a session that is not stored stays so
Closed(sessions, session_id) ==
    IF sessions[session_id] # "absent"
    THEN [sessions EXCEPT ![session_id] = "closed"]
    ELSE sessions

\* get_active_sessions of either backend
ActiveSessions(sessions) == {s \in DOMAIN sessions : sessions[s] = "active"}

NoSessions == [s \in LogSessions |-> "absent"]

NoLogs ==
    [max_logs |-> 1, redis |-> <<>>, file |-> <<>>,
     redis_sessions |-> NoSessions, file_sessions |-> NoSessions,
     added |-> 0, adds |-> <<>>, filtered |-> FALSE,
     op |-> "none", limit |-> 0, session_id |-> None,
     ret |-> [redis |-> <<>>, file |-> <<>>],
     active |-> [redis |-> {}, file |-> {}]]

\* what a call that returns nothing leaves of the last return values
Returned(op) ==
    [logstore EXCEPT !.op = op, !.limit = 0, !.session_id = None,
                     !.ret = [redis |-> <<>>, file |-> <<>>],
                     !.active = [redis |-> {}, file |-> {}]]

AddLog(session_id) ==
    /\ logstore.added < MaxAdds
    /\ LET entry == LogEntry(logstore.added + 1, session_id)
       IN  logstore' =
               [Returned("add_log") EXCEPT
                    !.redis = RedisAddLog(logstore.redis, entry, logstore.max_logs),
                    !.file = FileAddLog(logstore.file, entry, logstore.max_logs),
                    !.added = @ + 1,
                    !.adds = Append(@, entry)]
    /\ UNCHANGED <<live_run, ollama_call, JobVars, PipeVars, ServiceVars, SupportVars>>

GetLogs(limit, session_id) ==
    /\ logstore' =
           [Returned("get_logs") EXCEPT
                !.limit = limit, !.session_id = session_id,
                !.ret = [redis |-> RedisGetLogs(logstore.redis, limit, session_id),
                         file |-> FileGetLogs(logstore.file, limit, session_id)]]
    /\ UNCHANGED <<live_run, ollama_call, JobVars, PipeVars, ServiceVars, SupportVars>>

ClearLogs(session_id) ==
    /\ logstore' =
           [Returned("clear_logs") EXCEPT
                !.redis = RedisClearLogs(logstore.redis, session_id),
                !.file = FileClearLogs(logstore.file, session_id),
                !.adds = IF session_id = None THEN <<>> ELSE @,
                !.filtered = (session_id # None)]
    /\ UNCHANGED <<live_run, ollama_call, JobVars, PipeVars, ServiceVars, SupportVars>>

\* create_session: uuid4 gives an id no stored session has
CreateSession(session_id) ==
    /\ logstore.redis_sessions[session_id] = "absent"
    /\ logstore.file_sessions[session_id] = "absent"
    /\ logstore' =
           [Returned("create_session") EXCEPT
                !.redis_sessions[session_id] = "active",
                !.file_sessions[session_id] = "active"]
    /\ UNCHANGED <<live_run, ollama_call, JobVars, PipeVars, ServiceVars, SupportVars>>

CloseSession(session_id) ==
    /\ logstore' =
           [Returned("close_session") EXCEPT
                !.redis_sessions = Closed(@, session_id),
                !.file_sessions = Closed(@, session_id)]
    /\ UNCHANGED <<live_run, ollama_call, JobVars, PipeVars, ServiceVars, SupportVars>>

GetActiveSessions ==
    /\ logstore' =
           [Returned("get_active_sessions") EXCEPT
                !.active = [redis |-> ActiveSessions(logstore.redis_sessions),
                            file |-> ActiveSessions(logstore.file_sessions)]]
    /\ UNCHANGED <<live_run, ollama_call, JobVars, PipeVars, ServiceVars, SupportVars>>

NextLogs ==
    \/ \E session_id \in LogSessions : AddLog(session_id)
    \/ \E limit \in 1..MaxLimit, session_id \in {None} \cup {Some(s) : s \in LogSessions} :
            GetLogs(limit, session_id)
    \/ \E session_id \in {None} \cup {Some(s) : s \in LogSessions} : ClearLogs(session_id)
    \/ \E session_id \in LogSessions : CreateSession(session_id)
    \/ \E session_id \in LogSessions : CloseSession(session_id)
    \/ GetActiveSessions

\* ------------------------------------------------------------------------
\* A run started from the interface (src/app.py:
\* scrape_habr_with_live_logs, scrape_with_live_logs) and its log session
\* ------------------------------------------------------------------------
MaxRuns == 2        \* runs started one after the other

Runs == 1..MaxRuns

Backends == {"redis", "file"}

\* how a Redis command of the log manager can end; the file backend
\* catches what goes wrong when it writes (_save_data)
StoreAnswers(backend) == IF backend = "redis" THEN {"ok", "connection_error"} ELSE {"ok"}

\* ways control leaves a stretch of the function: it goes on, an Exception
\* is raised, or a BaseException is (KeyboardInterrupt, the interface
\* stopping or re-running the script)
Endings == {"normal", "error", "interrupted"}

NoRun ==
    [backend |-> "file", run |-> 0, pc |-> "idle",
     sessions |-> [r \in Runs |-> "absent"],
     closed_at |-> [r \in Runs |-> FALSE],
     exits |-> [r \in Runs |-> "none"]]

Leave(state, how) == [state EXCEPT !.pc = "idle", !.exits[state.run] = how]

\* LogManager.create_session: storage.create_session, then add_log; it is
\* called before the try statement of the run
CreateRunSession(stored, logged) ==
    /\ live_run.pc = "idle"
    /\ live_run.run < MaxRuns
    /\ LET started == [live_run EXCEPT !.run = @ + 1]
           r == started.run
       IN  live_run' =
               IF stored # "ok" THEN Leave(started, "error")
               ELSE IF logged # "ok"
                    THEN Leave([started EXCEPT !.sessions[r] = "active"], "error")
                    ELSE [started EXCEPT !.sessions[r] = "active", !.pc = "created"]
    /\ UNCHANGED <<logstore, ollama_call, JobVars, PipeVars, ServiceVars, SupportVars>>

\* the statements between create_session and `try:` (session counter,
\* flags, progress bar, log lines, queues or settings)
BeforeTry(ending) ==
    /\ live_run.pc = "created"
    /\ live_run' = IF ending = "normal" THEN [live_run EXCEPT !.pc = "try"]
                   ELSE Leave(live_run, ending)
    /\ UNCHANGED <<logstore, ollama_call, JobVars, PipeVars, ServiceVars, SupportVars>>

\* the try statement: its body returns, or `except Exception` returns the
\* failure, or a BaseException passes through; `finally` runs in each case
TryBody(ending) ==
    /\ live_run.pc = "try"
    /\ live_run' = [live_run EXCEPT !.pc = "finally", !.exits[live_run.run] = ending]
    /\ UNCHANGED <<logstore, ollama_call, JobVars, PipeVars, ServiceVars, SupportVars>>

\* finally: LogManager.close_session (add_log, then storage.close_session)
\* inside try/except Exception
CloseRunSession(logged, stored) ==
    /\ live_run.pc = "finally"
    /\ LET r == live_run.run
       IN  live_run' =
               IF logged = "ok" /\ stored = "ok"
               THEN [live_run EXCEPT !.pc = "idle", !.sessions[r] = "closed",
                                     !.closed_at[r] = TRUE]
               ELSE [live_run EXCEPT !.pc = "idle"]
    /\ UNCHANGED <<logstore, ollama_call, JobVars, PipeVars, ServiceVars, SupportVars>>

NextRun ==
    \/ \E stored, logged \in StoreAnswers(live_run.backend) : CreateRunSession(stored, logged)
    \/ \E ending \in Endings : BeforeTry(ending)
    \/ \E ending \in Endings : TryBody(ending)
    \/ \E logged, stored \in StoreAnswers(live_run.backend) : CloseRunSession(logged, stored)

\* ------------------------------------------------------------------------
\* OllamaService.generate (src/services/ollama_service.py): one request
\* through the HTTP session mounted with urllib3's Retry
\* ------------------------------------------------------------------------
max_retries == 3

backoff_factor == 1

status_forcelist == {429, 500, 502, 503, 504}

\* urllib3: Retry.RETRY_AFTER_STATUS_CODES
RETRY_AFTER_STATUS_CODES == {413, 429, 503}

\* what one attempt of the POST can meet: a response (its status and its
\* Retry-After header, in seconds, when it carries one), no connection, or
\* a connection that breaks or times out while the answer is read
Statuses == {200, 404, 413, 429, 500, 501, 503}

RetryAfterValues == {None, Some(1)}

HttpResponses == [kind : {"response"}, status : Statuses, retry_after : RetryAfterValues]

NoResponse(kind) == [kind |-> kind, status |-> 0, retry_after |-> None]

AttemptResults == HttpResponses \cup {NoResponse("connect_error"), NoResponse("read_error")}

NoOllamaCall ==
    [pc |-> "idle", system |-> FALSE, stream |-> FALSE, endpoint |-> "none",
     total |-> max_retries, history |-> <<>>, slept |-> <<>>, ret |-> "none"]

\* Retry.is_retry for a POST (POST is among allowed_methods)
is_retry(total, status_code, has_retry_after) ==
    \/ status_code \in status_forcelist
    \/ /\ total # 0
       /\ has_retry_after
       /\ status_code \in RETRY_AFTER_STATUS_CODES

\* Retry.get_backoff_time: nothing after the first failure in a row (its
\* upper limit of 120 s is out of reach of max_retries failures)
get_backoff_time(consecutive_errors_len) ==
    IF consecutive_errors_len <= 1 THEN 0
    ELSE backoff_factor * 2 ^ (consecutive_errors_len - 1)

\* Retry.sleep: the Retry-After header when the response has one, the
\* backoff otherwise
SleepTime(result, consecutive_errors_len) ==
    IF result.kind = "response" /\ result.retry_after # None
    THEN result.retry_after[1]
    ELSE get_backoff_time(consecutive_errors_len)

\* does urllib3 take the attempt's result for a failure to retry
Retryable(total, result) ==
    IF result.kind = "response"
    THEN is_retry(total, result.status, result.retry_after # None)
    ELSE TRUE

\* generate: with a system prompt the call goes to chat; either raises
\* NotImplementedError when asked to stream
Generate ==
    /\ ollama_call.pc = "called"
    /\ ollama_call' =
           IF ollama_call.stream
           THEN [ollama_call EXCEPT !.pc = "returned", !.ret = "raised"]
           ELSE [ollama_call EXCEPT
                     !.pc = "post",
                     !.endpoint = IF ollama_call.system THEN "/api/chat" ELSE "/api/generate"]
    /\ UNCHANGED <<logstore, live_run, JobVars, PipeVars, ServiceVars, SupportVars>>

\* one attempt of session.post. Retry.increment takes one from `total` and
\* gives up when it falls below zero (requests then raises RetryError or
\* ConnectionError); a response that is not retried goes back to generate,
\* where raise_for_status raises for 4xx and 5xx. Every exception of
\* requests ends in `return None`.
Post(result) ==
    /\ ollama_call.pc = "post"
    /\ LET history == Append(ollama_call.history, result)
           total == ollama_call.total - 1
       IN  ollama_call' =
               IF Retryable(ollama_call.total, result)
               THEN IF total < 0
                    THEN [ollama_call EXCEPT !.pc = "returned", !.history = history,
                                             !.total = total, !.ret = "None"]
                    ELSE [ollama_call EXCEPT
                              !.history = history, !.total = total,
                              !.slept = Append(@, SleepTime(result, Len(history)))]
               ELSE [ollama_call EXCEPT
                         !.pc = "returned", !.history = history,
                         !.ret = IF result.status >= 400 THEN "None" ELSE "text"]
    /\ UNCHANGED <<logstore, live_run, JobVars, PipeVars, ServiceVars, SupportVars>>

NextGenerate ==
    \/ Generate
    \/ \E result \in AttemptResults : Post(result)

\* nothing of the log store, the interface or the generation client is
\* under way
ClientsAtStart ==
    /\ logstore = NoLogs
    /\ live_run = NoRun
    /\ ollama_call = NoOllamaCall

\* ---- specifications -----------------------------------------------------

\* Habr runs, Reddit runs and direct callers share no table and no
\* collection, so the runs of one behaviour are all of one kind.
\* empty tables, no point in the vector index
ServicesAtStart ==
    /\ editorial = NoCall
    /\ dedup_call = NoDedupCalls
    /\ tau_run = NoFeed

\* nothing of the supporting functions is under way
SupportAtStart ==
    /\ telegram_call = NoTelegramCall
    /\ publish = NothingPublished
    /\ linkage = EmptyTables
    /\ scrape = NoScrape

StoreAtStart ==
    /\ habr_articles = <<>>
    /\ telegram_posts = <<>>
    /\ reddit_posts = <<>>
    /\ qdrant = <<>>

Init ==
    /\ JobsAtStart
    /\ StoreAtStart
    /\ SupportAtStart
    /\ ClientsAtStart
    /\ ServicesAtStart
    /\ worker \in [Workers -> HabrWorkers] \cup [Workers -> RedditWorkers]
                    \cup [Workers -> DirectCallers]
    /\ Ordered(worker)
    /\ similarity \in [Pairs -> ScoreLevels]

InitJobs ==
    /\ JobsAtStart
    /\ StoreAtStart
    /\ SupportAtStart
    /\ ClientsAtStart
    /\ ServicesAtStart
    /\ worker = [w \in Workers |-> NewWorker("habr", TRUE, TRUE)]
    /\ similarity = [p \in Pairs |-> 50]

Next ==
    \/ \E w \in Workers, a \in Articles, content_ok \in BOOLEAN :
            ParseArticle(w, a, content_ok)
    \/ \E w \in Workers : CheckDuplicateGate(w)
    \/ \E w \in Workers : EditorialStage(w)
    \/ \E w \in Workers : SaveHabrArticle(w)
    \/ \E w \in Workers : FlushArticle(w)
    \/ \E w \in Workers : CommitArticle(w)
    \/ \E w \in Workers : VectorizeArticle(w)
    \/ \E w \in Workers, p \in Articles : ScrapeSubmission(w, p)
    \/ \E w \in Workers, p \in Articles : SaveRedditPost(w, p)
    \/ \E w \in Workers : AddRedditPost(w)

vars == <<JobVars, PipeVars, ServiceVars, SupportVars, ClientVars>>

Spec == Init /\ [][Next]_vars

SpecJobs == InitJobs /\ [][NextJobs]_vars

\* one process_post call on every answer of the model
InitEditorial ==
    /\ JobsAtStart
    /\ StoreAtStart
    /\ SupportAtStart
    /\ ClientsAtStart
    /\ worker = [w \in Workers |-> NewWorker("habr", TRUE, TRUE)]
    /\ similarity = [p \in Pairs |-> 50]
    /\ dedup_call = NoDedupCalls
    /\ tau_run = NoFeed
    /\ editorial \in {[NoCall EXCEPT !.pc = "called", !.default_relevant = d, !.response = r] :
                          d \in BOOLEAN, r \in Responses}

SpecEditorial == InitEditorial /\ [][NextEditorial]_vars

\* the deduplication service called on an empty collection
InitDedup ==
    /\ JobsAtStart
    /\ StoreAtStart
    /\ SupportAtStart
    /\ ClientsAtStart
    /\ worker = [w \in Workers |-> NewWorker("habr", TRUE, TRUE)]
    /\ similarity \in [Pairs -> ScoreLevels]
    /\ editorial = NoCall
    /\ dedup_call = NoDedupCalls
    /\ tau_run = NoFeed

SpecDedup == InitDedup /\ [][NextDedup]_vars

\* a feed and two thresholds, the higher one first
InitTau ==
    /\ JobsAtStart
    /\ StoreAtStart
    /\ SupportAtStart
    /\ ClientsAtStart
    /\ worker = [w \in Workers |-> NewWorker("habr", FALSE, TRUE)]
    /\ similarity \in [TextPairs -> ScoreLevels]
    /\ editorial = NoCall
    /\ dedup_call = NoDedupCalls
    /\ tau_run \in {[NoFeed EXCEPT !.feed = f, !.hi = h, !.lo = l] :
                        f \in Feeds, h \in CallThresholds, l \in CallThresholds}
    /\ tau_run.hi >= tau_run.lo

SpecTau == InitTau /\ [][NextTau]_vars

\* the rest of the model at rest while one function is looked at
AtRest ==
    /\ JobsAtStart
    /\ StoreAtStart
    /\ ServicesAtStart
    /\ worker = [w \in Workers |-> NewWorker("habr", TRUE, TRUE)]
    /\ similarity = [p \in Pairs |-> 50]

\* the Telegram block of save_habr_article on every answer of the model
InitTelegram ==
    /\ AtRest
    /\ ClientsAtStart
    /\ publish = NothingPublished
    /\ linkage = EmptyTables
    /\ scrape = NoScrape
    /\ telegram_call \in {[NoTelegramCall EXCEPT !.pc = "called", !.answer = a] :
                              a \in TelegramAnswers}

SpecTelegram == InitTelegram /\ [][NextTelegram]_vars

\* TelegramPost rows created and marked in any order
InitPublish ==
    /\ AtRest
    /\ ClientsAtStart
    /\ telegram_call = NoTelegramCall
    /\ publish = NothingPublished
    /\ linkage = EmptyTables
    /\ scrape = NoScrape

SpecPublish == InitPublish /\ [][NextPublish]_vars

\* the four tables empty, every writer and every delete allowed
InitLinkage ==
    /\ AtRest
    /\ ClientsAtStart
    /\ telegram_call = NoTelegramCall
    /\ publish = NothingPublished
    /\ linkage = EmptyTables
    /\ scrape = NoScrape

SpecLinkage == InitLinkage /\ [][NextLinkage]_vars

\* the calls scrape_subreddit(name, max_posts, retry_on_error, max_retries)
ScrapeCalls ==
    {[NoScrape EXCEPT !.pc = "loop", !.retry_on_error = r, !.max_retries = m, !.max_posts = n] :
        r \in BOOLEAN, m \in RetryLimits, n \in 1..MaxListing}

\* one scrape_subreddit call; the function runs in its own thread and each
\* of its requests and pauses ends
InitScrape ==
    /\ AtRest
    /\ ClientsAtStart
    /\ telegram_call = NoTelegramCall
    /\ publish = NothingPublished
    /\ linkage = EmptyTables
    /\ scrape \in ScrapeCalls

SpecScrape == InitScrape /\ [][NextScrape]_vars /\ WF_vars(NextScrape)

\* the steps of a Habr crawl
NextHabr ==
    \/ \E w \in Workers, a \in Articles, content_ok \in BOOLEAN :
            ParseArticle(w, a, content_ok)
    \/ \E w \in Workers : CheckDuplicateGate(w)
    \/ \E w \in Workers : EditorialStage(w)
    \/ \E w \in Workers : SaveHabrArticle(w)
    \/ \E w \in Workers : FlushArticle(w)
    \/ \E w \in Workers : CommitArticle(w)
    \/ \E w \in Workers : VectorizeArticle(w)

\* two jobs side by side: a Habr crawl with the duplicate gate on (run 1)
\* and a scrape_subreddit call that may retry once
InitCounters ==
    /\ JobsAtStart
    /\ StoreAtStart
    /\ ServicesAtStart
    /\ ClientsAtStart
    /\ worker = [w \in Workers |-> IF w = 1 THEN NewWorker("habr", FALSE, TRUE)
                                   ELSE NewWorker("direct", FALSE, FALSE)]
    /\ similarity \in [Pairs -> ScoreLevels]
    /\ telegram_call = NoTelegramCall
    /\ publish = NothingPublished
    /\ linkage = EmptyTables
    /\ scrape = [NoScrape EXCEPT !.pc = "loop", !.max_retries = 1, !.max_posts = MaxListing]

SpecCounters == InitCounters /\ [][NextHabr \/ NextScrape]_vars

\* both log backends, empty, with the same max_logs
InitLogs ==
    /\ AtRest
    /\ SupportAtStart
    /\ live_run = NoRun
    /\ ollama_call = NoOllamaCall
    /\ logstore \in {[NoLogs EXCEPT !.max_logs = n] : n \in 1..MaxLogCap}

SpecLogs == InitLogs /\ [][NextLogs]_vars

\* runs started from the interface, the log manager on either backend
InitRun ==
    /\ AtRest
    /\ SupportAtStart
    /\ logstore = NoLogs
    /\ ollama_call = NoOllamaCall
    /\ live_run \in {[NoRun EXCEPT !.backend = b] : b \in Backends}

SpecRun == InitRun /\ [][NextRun]_vars

\* one call of generate
InitGenerate ==
    /\ AtRest
    /\ SupportAtStart
    /\ logstore = NoLogs
    /\ live_run = NoRun
    /\ ollama_call \in {[NoOllamaCall EXCEPT !.pc = "called", !.system = sy, !.stream = st] :
                            sy \in BOOLEAN, st \in BOOLEAN}

SpecGenerate == InitGenerate /\ [][NextGenerate]_vars

\* ------------------------------------------------------------------------
\* Claims about the item pipeline
\* ------------------------------------------------------------------------

\* C1: the record store never holds two raw records with the same source
\* id: at most one habr_articles row per article_id and at most one
\* reddit_posts row per post_id, uncommitted rows counted.
C1_OneRawRecordPerSourceId ==
    \A a \in Articles :
        /\ Cardinality(RowsOf(habr_articles, a)) <= 1
        /\ Cardinality(RowsOf(reddit_posts, a)) <= 1

\* C1 witness: two runs took up the same article at the same time, both got
\* past the existence check, one saved it and the other ran into the unique
\* index.
C1_Witness ==
    \E v, w \in Workers, a \in Articles :
        /\ worker[v].result = "saved" /\ worker[v].result_url = a
        /\ worker[w].result = "integrity_error" /\ worker[w].result_url = a
        /\ Cardinality(RowsOf(habr_articles, a)) = 1

\* branches that drop an item for its content before any gate or write
ValidationDrops == {"short_content", "invalid"}

\* C2: when an item whose raw record is already stored is submitted again,
\* the submission ends as an exact duplicate (skipped by id) and the store
\* still holds exactly one raw record for it.
C2_ResubmissionIsDuplicateId ==
    \A w \in Workers :
        (worker[w].result_stored /\ worker[w].result \notin ValidationDrops) =>
            /\ worker[w].result = "exists"
            /\ Cardinality(RowsOf(habr_articles, worker[w].result_url)) = 1
                   \/ Cardinality(RowsOf(reddit_posts, worker[w].result_url)) = 1

\* C3: when the semantic-duplicate gate fires for an item, the counter
\* semantic_duplicates grows by one and afterwards the store holds no raw
\* record, no short-form record and no vector for that item.
C3_SemanticDuplicateLeavesNoRecord ==
    [][\A w \in Workers :
          worker'[w].stats.semantic_duplicates # worker[w].stats.semantic_duplicates =>
              /\ worker'[w].stats.semantic_duplicates = worker[w].stats.semantic_duplicates + 1
              /\ RowsOf(habr_articles', worker[w].locals.url) = {}
              /\ RowsOf(telegram_posts', worker[w].locals.url) = {}
              /\ Uuid5(worker[w].locals.url) \notin DOMAIN qdrant'
      ]_vars

\* C4: a persist that fails leaves nothing behind: after the failed commit
\* the tables are as they were before the transaction's first write, no row
\* of the item carries a vector id and no short-form row exists for it; and
\* a short-form row never exists without the article row it belongs to.
C4_FailedPersistLeavesNothing ==
    /\ [](\A i \in DOMAIN telegram_posts :
             \E k \in RowsOf(habr_articles, telegram_posts[i].key) :
                 habr_articles[k].txn = telegram_posts[i].txn)
    /\ [][\A w \in Workers :
             (worker[w].pc = "commit" /\ worker'[w].result = "db_error"
                  /\ worker'[w].handled = worker[w].handled + 1) =>
                 /\ telegram_posts' = telegram_posts
                 /\ habr_articles' = SelectSeq(habr_articles, LAMBDA r : r.txn # w)
                 /\ RowsOf(telegram_posts', worker[w].locals.url) = {}
                 /\ \A i \in RowsOf(habr_articles', worker[w].locals.url) :
                        habr_articles'[i].qdrant_id = "none"
         ]_vars

\* C4 witness: one article was saved with its short-form row, the commit of
\* another failed, and nothing of the second is in the store.
C4_Witness ==
    \E w \in Workers :
        /\ worker[w].result = "db_error"
        /\ RowsOf(habr_articles, worker[w].result_url) = {}
        /\ RowsOf(telegram_posts, worker[w].result_url) = {}
        /\ telegram_posts # <<>>

\* branches a submission leaves by once it has reached the persist step,
\* the store working
PersistResults == {"type_error", "exists", "integrity_error", "saved"}

\* C9: when two scraper runs have both brought the same source id to the
\* persist step, exactly one raw record exists, one run saved it and the
\* other was skipped as a duplicate; neither ended in an error.
C9_ConcurrentSameIdOneSavedOneSkipped ==
    \A v, w \in Workers :
        (/\ v # w
         /\ worker[v].kind # "direct" /\ worker[w].kind # "direct"
         /\ worker[v].result_url = worker[w].result_url
         /\ worker[v].result \in PersistResults /\ worker[w].result \in PersistResults) =>
            /\ Cardinality(RowsOf(habr_articles, worker[v].result_url)
                               \cup RowsOf(reddit_posts, worker[v].result_url)) = 1
            /\ "saved" \in {worker[v].result, worker[w].result}
            /\ {worker[v].result, worker[w].result} \cap {"exists", "integrity_error"} # {}

\* articles that have passed the semantic-duplicate gate of some run
PassedGate == UNION {worker[w].passed_gate : w \in Workers}

\* C10: of two different items whose texts are at least as similar as the
\* threshold, never both pass the semantic-duplicate gate of the collection.
C10_NearDuplicatesNeverBothPass ==
    \A a, b \in Articles :
        (a # b /\ similarity[{a, b}] >= Threshold) => ~(a \in PassedGate /\ b \in PassedGate)

\* ------------------------------------------------------------------------
\* Claims about the stages of an item, the toggles and the vector index
\* ------------------------------------------------------------------------

\* C11: the exact-duplicate gate comes before any embedding call and any
\* editorial LLM call for the item: an item whose raw record was stored
\* when it arrived is stopped there, so no run makes a check_duplicate
\* call or an LLM call for it.
C11_ExactGateBeforeEmbeddingAndLlm ==
    [][\A w \in Workers :
          (worker[w].locals.stored_before /\ worker'[w] # worker[w]) =>
              /\ worker[w].pc # "dedup"
              /\ ~(worker[w].pc = "llm" /\ worker[w].enable_llm)
      ]_vars

\* C12: when the editorial LLM call failed for an item and the item is
\* saved, its committed record has is_news = false and a relevance_reason
\* that carries the failure, and no short-form record exists for it.
C12_EditorialFailureIsRecorded ==
    [][\A w \in Workers :
          (/\ worker[w].pc = "commit" /\ worker[w].locals.llm_error
           /\ worker'[w].stats.saved = worker[w].stats.saved + 1) =>
              /\ RowsOf(telegram_posts', worker[w].locals.url) = {}
              /\ \E i \in RowsOf(habr_articles', worker[w].locals.url) :
                    /\ habr_articles'[i].txn = 0
                    /\ ~habr_articles'[i].is_news
                    /\ habr_articles'[i].relevance_reason # "none"
      ]_vars

\* C14: a run applies its own toggles: with enable_llm false no editorial
\* LLM call is made for its items, neither in the scraper nor in the save;
\* with enable_deduplication false no semantic-duplicate check is made; with
\* a toggle true the stage runs.
C14_RunAppliesItsToggles ==
    /\ [](\A w \in Workers :
             ~worker[w].enable_deduplication =>
                 /\ worker[w].pc # "dedup"
                 /\ worker[w].stats.semantic_duplicates = 0
                 /\ worker[w].passed_gate = {})
    /\ [][\A w \in Workers :
             /\ (worker[w].pc = "flush" /\ worker'[w].pc = "commit" /\ ~worker[w].enable_llm) =>
                    \A i \in DOMAIN habr_articles' :
                        habr_articles'[i].txn = w => ~habr_articles'[i].llm_call
             /\ (worker[w].pc = "llm" /\ worker'[w].pc = "save" /\ ~worker[w].enable_llm) =>
                    /\ worker'[w].stats = worker[w].stats
                    /\ ~worker'[w].locals.llm_error
             /\ (worker[w].pc = "llm" /\ worker'[w].pc = "save" /\ worker[w].enable_llm) =>
                    \/ worker'[w].locals.llm_error
                    \/ worker'[w].stats.editorial_processed = worker[w].stats.editorial_processed + 1
             /\ (worker[w].kind = "habr" /\ worker[w].enable_deduplication
                     /\ worker[w].pc = "idle" /\ worker'[w].pc # "idle") =>
                    worker'[w].pc = "dedup"
         ]_vars

\* C16: when the embedding fails during check_duplicate, the call returns
\* (false, none, none) without raising and the item goes on to the next
\* stage.
C16_EmbeddingFailureDoesNotBlock ==
    [][\A w \in Workers :
          (worker[w].pc = "dedup" /\ worker'[w] # worker[w] /\ ~worker'[w].locals.embedded) =>
              /\ worker'[w].pc = "llm"
              /\ worker'[w].locals.check =
                     Some([is_dup |-> FALSE, duplicate_id |-> None, score |-> None])
      ]_vars

\* C18: every committed raw record has no vector id or one that names a
\* point of the collection, and once a point is stored for an item its
\* committed raw record carries the vector id.
C18_VectorIdAttached ==
    /\ \A i \in DOMAIN habr_articles :
          habr_articles[i].txn = 0 =>
              \/ habr_articles[i].qdrant_id = "none"
              \/ habr_articles[i].qdrant_id \in DOMAIN qdrant
    /\ \A a \in Articles :
          Uuid5(a) \in DOMAIN qdrant =>
              \A i \in RowsOf(habr_articles, a) :
                  habr_articles[i].txn = 0 => habr_articles[i].qdrant_id # "none"

\* C19: an ingestion path that passes no threshold flags an item as a
\* semantic duplicate only if a point of the collection scores at least
\* 0.95 against it.
C19_DefaultThresholdIs95 ==
    [][\A w \in Workers :
          worker'[w].stats.semantic_duplicates = worker[w].stats.semantic_duplicates + 1 =>
              Search(qdrant, worker[w].locals.url, DefaultTau) # {}
      ]_vars

\* ------------------------------------------------------------------------
\* Claims about the editorial service
\* ------------------------------------------------------------------------

\* C13: with default_relevant (Habr), a verdict of the model with is_news
\* false or a score below 0.8 comes back as is_news true with a score of at
\* least 0.8 and a relevance_reason that notes the override.
C13_HabrVerdictIsUpgraded ==
    (/\ editorial.pc = "returned" /\ editorial.default_relevant
     /\ editorial.response.kind \notin {"raise", "empty"}
     /\ ~editorial.parsed.error
     /\ IsNumber(editorial.parsed.data.relevance_score)
     /\ \/ editorial.parsed.data.is_news # Bool(TRUE)
        \/ editorial.parsed.data.relevance_score.n < 80) =>
        /\ editorial.result.is_news = Bool(TRUE)
        /\ editorial.result.relevance_score.t = "num"
        /\ editorial.result.relevance_score.n >= 80
        /\ editorial.result.relevance_reason = Str("habr, original score noted")

\* C20: for every non-empty answer of the model, process_post returns
\* without raising a payload whose is_news is a boolean, whose
\* relevance_score is a number in [0, 1] and whose relevance_reason is text.
C20_ParseThenRepairIsTotal ==
    (editorial.pc = "returned" /\ editorial.response.kind \notin {"raise", "empty"}) =>
        /\ editorial.result.is_news.t = "bool"
        /\ editorial.result.relevance_score.t = "num"
        /\ editorial.result.relevance_score.n >= 0
        /\ editorial.result.relevance_score.n <= 100
        /\ editorial.result.relevance_reason.t = "str"

\* ------------------------------------------------------------------------
\* Claims about the deduplication service
\* ------------------------------------------------------------------------

\* the calls of save_to_qdrant made for a record id
SaveCalls(a) ==
    {i \in DOMAIN dedup_call :
        dedup_call[i].op = "save_to_qdrant" /\ dedup_call[i].record_id = a}

PointsOf(a) == {id \in DOMAIN qdrant : qdrant[id].record_id = a}

C17_RememberIsIdempotent ==
    /\ [](\A a \in Articles :
             /\ Cardinality(PointsOf(a)) <= 1
             /\ Cardinality({dedup_call[i].ret : i \in {k \in SaveCalls(a) : dedup_call[k].out = "ok"}}) <= 1
             /\ \A i \in SaveCalls(a) :
                    IF dedup_call[i].out = "ok"
                    THEN /\ dedup_call[i].ret # None
                         /\ PointsOf(a) = {dedup_call[i].ret[1]}
                    ELSE dedup_call[i].ret = None)
    /\ [][(/\ Len(dedup_call') = Len(dedup_call) + 1
           /\ dedup_call'[Len(dedup_call')].op = "save_to_qdrant"
           /\ dedup_call'[Len(dedup_call')].out # "ok") => qdrant' = qdrant
         ]_vars

\* C17 witness: save_to_qdrant succeeded twice for one record id, the
\* second time with another text, failed once, and one point is stored.
C17_Witness ==
    \E a \in Articles :
        /\ Cardinality({i \in SaveCalls(a) : dedup_call[i].out = "ok"}) = 2
        /\ \E i \in SaveCalls(a) : dedup_call[i].out # "ok"
        /\ Cardinality(PointsOf(a)) = 1
        /\ \A id \in PointsOf(a) : qdrant[id].text # "orig"

\* ------------------------------------------------------------------------
\* Claims about validation and counters
\* ------------------------------------------------------------------------

\* the item in hand ends in this step as an invalid one (its title, for the
\* text that reaches save_habr_article is not the short one)
DroppedInvalid(w) ==
    /\ worker'[w].handled = worker[w].handled + 1
    /\ worker'[w].result \in ValidationDrops
    /\ worker[w].locals.processed_content # "short"

\* C24: an item whose title or body is too short or whose URL is malformed
\* is dropped at the first pipeline step as invalid: no LLM or embedding
\* call is made for it, nothing is written to the record store or the
\* vector index, and skipped grows by exactly one.
C24_InvalidDroppedAtFirstStep ==
    [][\A w \in Workers :
          DroppedInvalid(w) =>
              /\ worker[w].pc = "idle"
                    \/ (~worker[w].enable_llm /\ ~worker[w].enable_deduplication)
              /\ worker'[w].stats.skipped = worker[w].stats.skipped + 1
              /\ UNCHANGED <<habr_articles, telegram_posts, reddit_posts, qdrant>>
      ]_vars

C21_ShortFormBounded ==
    telegram_call.pc = "stored" =>
        /\ telegram_call.post # None =>
              LET post == telegram_call.post[1] IN
              /\ post.character_count.t = "num"
              /\ post.character_count.n <= MaxChars
              /\ post.character_count.n = CharLen(post.formatted_content.s)
        /\ telegram_call.result.missing # {} =>
              telegram_call.result.error /\ telegram_call.post = None

\* is_published <=> published_at # null /\ telegram_message_id # null
PublishedIffStamped(post) ==
    post.is_published <=> (post.published_at # None /\ post.telegram_message_id # None)

\* C22: for every short-form record in every reachable state, after creation
\* and after any mark_as_published calls with any arguments, is_published
\* holds if and only if published_at and the message id are both non-null.
C22_PublishedIffStamped ==
    \A p \in DOMAIN publish.posts : PublishedIffStamped(publish.posts[p])

\* C22 as amended: the equivalence holds for every record whose
\* mark_as_published calls all passed an integer message id.
C22_PublishedIffStampedForIntegerIds ==
    \A p \in DOMAIN publish.posts :
        (\A i \in DOMAIN publish.calls :
            publish.calls[i].post_id = p => publish.calls[i].message_id # None)
        => PublishedIffStamped(publish.posts[p])

\* one record marked twice with integer ids next to one never marked, and a
\* call whose commit failed
C22_Witness ==
    /\ Len(publish.posts) = 2
    /\ publish.posts[1].is_published /\ publish.posts[1].telegram_message_id = Some(7)
    /\ ~publish.posts[2].is_published
    /\ \E i, j \in DOMAIN publish.calls :
          /\ i < j
          /\ publish.calls[i].post_id = 1 /\ publish.calls[i].ret = "True"
          /\ publish.calls[i].message_id = Some(0)
          /\ publish.calls[j].post_id = 1 /\ publish.calls[j].ret = "True"
    /\ \E i \in DOMAIN publish.calls : publish.calls[i].ret = "raised"

\* ------------------------------------------------------------------------
\* Claims about the links between records
\* ------------------------------------------------------------------------

\* the raw keys a referencing row can resolve to
ParentKeys(child) ==
    IF child = "telegram_posts" THEN VisibleArticles ELSE linkage.reddit_posts

\* C23: in every reachable state every processed record and every
\* short-form record references a raw record that is in the store under the
\* same source id, also after failed or rolled-back writes and after deletes.
C23_LinksResolve == \A r \in LinkRows : r.key \in ParentKeys(r.child)

\* a processed post went with its deleted raw post while a short-form record
\* is stored with its article
C23_Witness ==
    /\ linkage.ret = "cascade_deleted"
    /\ linkage.telegram_posts # {}
    /\ linkage.processed_reddit_posts # {}
    /\ linkage.reddit_posts # Articles

\* ------------------------------------------------------------------------
\* Claims about scrape_subreddit
\* ------------------------------------------------------------------------

\* at most max_retries + 1 attempts, one without retry_on_error; no attempt
\* after an authentication error; 2^retry_count seconds before a retry that
\* follows a 429; a return without a completed attempt says success = false
\* and names an error_type
ScrapeIsBounded ==
    /\ scrape.attempts <= scrape.max_retries + 1
    /\ ~scrape.retry_on_error => scrape.attempts <= 1
    /\ (~scrape.retry_on_error /\ scrape.pc = "returned") => scrape.attempts = 1
    /\ \A i \in DOMAIN scrape.failures :
          LET f == scrape.failures[i] IN
          /\ f.cause = "auth" =>
                i = Len(scrape.failures) /\ scrape.pc = "returned" /\ f.slept = 0
          /\ (f.cause = "http_429" /\ ~(i = Len(scrape.failures) /\ scrape.pc = "returned"))
                => f.slept = 2 ^ f.retry_count
    /\ scrape.pc = "returned" =>
          /\ scrape.ret # None
          /\ scrape.ret[1].counters = None =>
                ~scrape.ret[1].success /\ scrape.ret[1].error_type # "none"

\* C30: scrape_subreddit always terminates and returns a result mapping: at
\* most max_retries + 1 fetch attempts (exactly one when retry_on_error is
\* false), no retry after an authentication error, 2^retry_count seconds of
\* waiting before each retry that follows an HTTP 429, and success = false
\* with an error_type whenever it returns without a completed attempt.
C30_ScrapeTerminates == []ScrapeIsBounded /\ <>(scrape.pc = "returned")

\* the call used all its retries on 429 answers, the last one after posts
\* had been handled, and returned rate_limit
C30_Witness ==
    /\ scrape.pc = "returned" /\ scrape.max_retries = 3 /\ scrape.attempts = 4
    /\ \A i \in DOMAIN scrape.failures : scrape.failures[i].cause = "http_429"
    /\ scrape.failures[3].slept = 8
    /\ scrape.idx > 0
    /\ scrape.ret[1].error_type = "rate_limit"

\* ------------------------------------------------------------------------
\* Claims about the log store and the sessions
\* ------------------------------------------------------------------------
Elements(list) == {list[i] : i \in 1..Len(list)}

\* the n entries added last, oldest first
Newest(adds, n) == SubSeq(adds, Max(1, Len(adds) - n + 1), Len(adds))

LogCap(store) ==
    /\ Len(store.redis) <= store.max_logs
    /\ Len(store.file) <= store.max_logs

\* after add_log calls alone (since the store was last empty) the store
\* holds the newest max_logs entries: the file list oldest first, the Redis
\* list newest first
HoldsNewest(store) ==
    ~store.filtered =>
        /\ store.file = Newest(store.adds, store.max_logs)
        /\ store.redis = Reverse(Newest(store.adds, store.max_logs))

\* a call other than clear_logs loses an entry only if it is an add_log
\* that found the store full
DropsOnlyOverCap(before, after) ==
    after.op # "clear_logs" =>
        /\ \/ Elements(before.file) \subseteq Elements(after.file)
           \/ after.op = "add_log" /\ Len(before.file) = before.max_logs
        /\ \/ Elements(before.redis) \subseteq Elements(after.redis)
           \/ after.op = "add_log" /\ Len(before.redis) = before.max_logs

SessionLogs(list, limit, session_id) ==
    LET mine == OfSession(list, session_id)
    IN  IF Len(mine) > limit THEN Newest(mine, limit) ELSE mine

\* C27: given the same calls, the Redis backend and the file backend return
\* the same: the same entries in the same order from get_logs, the same
\* active sessions, and with a session id get_logs returns all the entries
\* of that session that are held, up to limit.
C27_BackendsAgree ==
    /\ logstore.ret.redis = logstore.ret.file
    /\ logstore.active.redis = logstore.active.file
    /\ (logstore.op = "get_logs" /\ logstore.session_id # None) =>
            logstore.ret.file =
                SessionLogs(logstore.file, logstore.limit, logstore.session_id[1])

Exited(r) == r < live_run.run \/ (r = live_run.run /\ live_run.pc = "idle")

\* C28: the session created for a run is closed (status closed, closed_at
\* set) once the run has exited, however it ended.
C28_SessionClosedOnExit ==
    \A r \in Runs :
        (Exited(r) /\ live_run.sessions[r] # "absent") =>
            /\ live_run.sessions[r] = "closed"
            /\ live_run.closed_at[r]

\* ------------------------------------------------------------------------
\* Claims about the generation client
\* ------------------------------------------------------------------------
\* C29: an attempt is followed by another one only if it met an HTTP 429
\* or 5xx response (no other 4xx is retried), and a call makes at most
\* 1 + max_retries attempts.
C29_RetriesOnly429Or5xx ==
    /\ \A i \in 1..(Len(ollama_call.history) - 1) :
            /\ ollama_call.history[i].kind = "response"
            /\ \/ ollama_call.history[i].status = 429
               \/ ollama_call.history[i].status >= 500
    /\ Len(ollama_call.history) <= 1 + max_retries

\* ------------------------------------------------------------------------
\* Claims about the job runner
\* ------------------------------------------------------------------------

\* the status edges the job lifecycle allows
JobEdges == {<<"pending", "running">>, <<"running", "completed">>, <<"running", "failed">>}

\* C5: a job is created pending, its status moves only along pending ->
\* running -> completed | failed, and once it is completed or failed its
\* status, results, error and completed_at never change again.
C5_TerminalJobsImmutable ==
    [][\A j \in JobIds :
        /\ (~JobPresent(j) /\ j \in DOMAIN scraper_jobs') => scraper_jobs'[j].status = "pending"
        /\ (JobPresent(j) /\ j \in DOMAIN scraper_jobs') =>
            /\ scraper_jobs'[j].status # scraper_jobs[j].status
                   => <<scraper_jobs[j].status, scraper_jobs'[j].status>> \in JobEdges
            /\ scraper_jobs[j].status \in Terminal => scraper_jobs'[j] = scraper_jobs[j]
      ]_vars

\* positions of a background task before its write of a terminal status
BeforeTerminalWrite == {"queued", "started", "scrape", "complete"}

\* C6: DELETE /scrape/jobs removes exactly the jobs that were completed or
\* failed when it looked, every pending or running job stays with all its
\* fields unchanged whatever the background tasks do meanwhile, and a task
\* that has yet to write its terminal status still finds its record.
C6_ClearKeepsLiveJobs ==
    /\ [](\A j \in JobIds : task_pc[j] \in BeforeTerminalWrite => JobPresent(j))
    /\ [](job_ids_to_remove \subseteq {k \in DOMAIN scraper_jobs : scraper_jobs[k].status \in Terminal})
    /\ [][/\ (clear_pc = "idle" /\ clear_pc' = "deleting") =>
               job_ids_to_remove' = {k \in DOMAIN scraper_jobs : scraper_jobs[k].status \in Terminal}
          /\ (clear_pc = "deleting" /\ clear_pc' = "idle") =>
               /\ DOMAIN scraper_jobs' = (DOMAIN scraper_jobs) \ job_ids_to_remove
               /\ \A k \in DOMAIN scraper_jobs :
                      scraper_jobs[k].status \notin Terminal =>
                          k \in DOMAIN scraper_jobs' /\ scraper_jobs'[k] = scraper_jobs[k]
         ]_vars

\* C6 witness: the cleanup has dropped a finished job while another job,
\* still running, kept its record.
C6_Witness ==
    \E j, k \in JobIds :
        /\ task_pc[j] = "returned" /\ ~JobPresent(j)
        /\ JobPresent(k) /\ scraper_jobs[k].status = "running" /\ clear_pc = "idle"

\* C7: the background job function never lets an exception escape, and
\* when it returns the job is either completed with its results or failed
\* with the error text recorded.
C7_RunnerNeverRaises ==
    \A j \in JobIds :
        /\ task_pc[j] # "raised"
        /\ (task_pc[j] = "returned" /\ JobPresent(j)) =>
              \/ scraper_jobs[j].status = "completed" /\ scraper_jobs[j].results # "none"
              \/ scraper_jobs[j].status = "failed" /\ scraper_jobs[j].error = "text"

\* C8: a job whose orchestrator could not proceed (scrape_habr returned
\* success = false) never ends in state completed.
C8_UnsuccessfulJobFails ==
    \A j \in DOMAIN scraper_jobs :
        task_result[j] = "unsuccessful" => scraper_jobs[j].status # "completed"

====
